---- MODULE Spec2Model ----
(***************************************************************************)
(* A model of the retrieval-augmented query pipeline of the RAG            *)
(* application: the text chunker (src/src/pdf_processor.py), the chatbot   *)
(* (src/src/retrieval_qa.py) and the embedding cache                       *)
(* (src/src/embeddings.py).                                                *)
(*                                                                         *)
(* Each component has its own specification over the shared variables:     *)
(*   SpecChunker  - TextProcessor.__init__ and create_chunks               *)
(*   SpecChat     - RAGChatbot.chat / clear_memory, few turns, rich inputs *)
(*   SpecMemory   - RAGChatbot.chat / clear_memory, many turns             *)
(*   SpecEmbed    - EmbeddingManager cache and embed_text                  *)
(***************************************************************************)
EXTENDS Integers, Sequences, FiniteSets, TLC

VARIABLES
    \* ---- TextProcessor (pdf_processor.py) ----
    chunk_size,      \* self.chunk_size
    chunk_overlap,   \* self.chunk_overlap
    overlap_arg,     \* the chunk_overlap argument __init__ was called with
    text,            \* argument of the running create_chunks call
    source_name,     \* argument of the running create_chunks call
    chunks,          \* local list `chunks`, the value returned
    start,           \* local `start`
    chunk_id,        \* local `chunk_id`
    pc_chunk,        \* "idle" | "loop" | "done": position in create_chunks
    \* ---- RAGChatbot (retrieval_qa.py) ----
    memory,            \* self.memory
    appended,          \* every exchange given to _update_memory since the last
                       \* clear_memory (or construction), oldest first
    performance_stats, \* self.performance_stats
    clock,             \* time.time()
    chat_result,       \* what the last chat() call returned or raised
    store_calls,       \* similarity_search calls issued by the last chat() call
    retrieved_docs,    \* docs: what similarity_search returned to that call
    gen_calls,         \* llm_answer calls issued by the last chat() call
    turn_times,        \* the (retrieval_time, generation_time) handed to
                       \* _update_stats so far, oldest first
    \* ---- EmbeddingManager (embeddings.py) ----
    cache,             \* the files of cache_dir, by cache key
    embed_result,      \* what the last EmbeddingManager call returned or raised,
                       \* until its caller takes it
    provider_calls,    \* texts POSTed to /api/embeddings by the last call
    unlinked,          \* cache keys whose file the last call deleted
    saved,             \* by cache key, the value last handed to _save_to_cache
                       \* since the manager was made or the cache was cleared
    \* ---- ChromaVectorStore (vector_store.py) ----
    collection,        \* the records of the database collection named
                       \* config.COLLECTION_NAME
    collection_exists, \* whether the database has that collection
    collection_metadata,     \* the name and metadata the collection was created with
    embedding_provider_name, \* self.embedding_provider_name
    now_seconds,       \* datetime.now(), in whole seconds
    store_result,      \* what the last ChromaVectorStore call returned or
                       \* raised, until its caller takes it
    issued_ids,        \* the ids generated by add_documents in this run
    issued_count,      \* how many ids add_documents generated in this run
    \* ---- PDFProcessor, TXTProcessor (pdf_processor.py) ----
    process_result,    \* what the last process_pdf or process_txt call returned
                       \* or raised, until its caller takes it
    \* ---- one cache entry shared by several processes (embeddings.py) ----
    os_name,           \* os.name: "posix" or "nt"
    disk,              \* the directory entry of cache_path and the files
    saver,             \* the process inside _save_to_cache(cache_key, ...)
    loader,            \* the process inside _load_from_cache(cache_key)
    clearer,           \* the process inside clear_cache()
    \* ---- RAGChatbot._optimize_context_length (retrieval_qa.py) ----
    context_result,    \* what the last _optimize_context_length call was given
                       \* and returned, until its caller takes it
    \* ---- embedding_provider_selection (app.py) ----
    selected_embedding_provider, \* st.session_state.selected_embedding_provider
    provider_status,   \* by provider, whether its service or library can be used
    selection_result,  \* what the last run of the selector did
    \* ---- PerformanceMonitor (performance_monitor.py) ----
    monitoring,        \* self.monitoring
    monitor_thread,    \* self.monitor_thread: a thread, or 0 for None
    threads,           \* by thread created so far, where it is in _monitor_system
    system_metrics     \* self.system_metrics: the thread that appended each sample

chunkerVars ==
    <<chunk_size, chunk_overlap, overlap_arg, text, source_name, chunks, start,
      chunk_id, pc_chunk>>

chatVars ==
    <<memory, appended, performance_stats, clock, chat_result, store_calls,
      retrieved_docs, gen_calls, turn_times>>

embedVars == <<cache, embed_result, provider_calls, unlinked, saved>>

storeVars ==
    <<collection, collection_exists, collection_metadata, embedding_provider_name,
      now_seconds, store_result, issued_ids, issued_count>>

processVars == <<process_result>>

sharedVars == <<os_name, disk, saver, loader, clearer>>

contextVars == <<context_result>>

selectorVars == <<selected_embedding_provider, provider_status, selection_result>>

monitorVars == <<monitoring, monitor_thread, threads, system_metrics>>

vars ==
    <<chunkerVars, chatVars, embedVars, storeVars, processVars, sharedVars,
      contextVars, selectorVars, monitorVars>>

(***************************************************************************)
(* Generic helpers                                                         *)
(***************************************************************************)
Min(a, b) == IF a <= b THEN a ELSE b

Max(a, b) == IF a >= b THEN a ELSE b

\* ceil(a / b) for a >= 0, b > 0
CeilDiv(a, b) == (a + b - 1) \div b

\* all sequences over S of length 0..n
SeqsUpTo(S, n) == UNION {[1..k -> S] : k \in 0..n}

(***************************************************************************)
(* Bounds of the chunker model                                             *)
(***************************************************************************)
MaxTextLen == 5

MaxChunkSizeArg == 4

MaxOverlapArg == 3

\* cap on the number of chunks a non-terminating create_chunks may build
MaxChunks == 7

Chars == {"a", " "}

SourceNames == {"notes.txt", "Report.PDF"}

(***************************************************************************)
(* config.py                                                               *)
(***************************************************************************)
CHUNK_SIZE == 1000

CHUNK_OVERLAP == 200

(***************************************************************************)
(* TextProcessor                                                           *)
(***************************************************************************)
\* the argument None (the default of both parameters of __init__)
NoArgument == -1

\* Python `x or default`: None and 0 are both falsy
OrDefault(arg, default) == IF arg = NoArgument \/ arg = 0 THEN default ELSE arg

\* Python slice index normalisation for s[i:j] on a sequence of length n
ClampIndex(i, n) ==
    LET j == IF i < 0 THEN i + n ELSE i
    IN  IF j < 0 THEN 0 ELSE IF j > n THEN n ELSE j

\* Python s[i:j]
PySlice(s, i, j) ==
    LET lo == ClampIndex(i, Len(s))
        hi == ClampIndex(j, Len(s))
    IN  IF hi <= lo THEN <<>> ELSE SubSeq(s, lo + 1, hi)

\* Path(source_name).suffix.lower()
FileType(name) ==
    CASE name = "notes.txt"  -> ".txt"
      [] name = "Report.PDF" -> ".pdf"
      [] OTHER               -> ""

Stride_IgnoresOverlap(size, overlap) == size

\* start += self.chunk_size - self.chunk_overlap
Stride(size, overlap) == size - overlap

EndChar_Unclipped(end, len) == end

\* "end_char": min(end, len(text))
EndChar(end, len) == Min(end, len)

\* the dictionary appended by one iteration of the loop
MakeChunk(txt, src, id, st, size) ==
    LET end == st + size
    IN  [page_content |-> PySlice(txt, st, end),
         metadata     |-> [source     |-> src,
                           chunk_id   |-> id,
                           start_char |-> st,
                           end_char   |-> EndChar(end, Len(txt)),
                           file_type  |-> FileType(src)]]

LoopCondition_Inclusive(st, txt) == st <= Len(txt)

\* while start < len(text)
LoopCondition(st, txt) == st < Len(txt)

\* TextProcessor.__init__(chunk_size, chunk_overlap)
ConstructTextProcessor ==
    /\ \E sizeArg \in 0..MaxChunkSizeArg,
          overlapArg \in {NoArgument} \cup 0..MaxOverlapArg :
          /\ chunk_size = OrDefault(sizeArg, CHUNK_SIZE)
          /\ chunk_overlap = OrDefault(overlapArg, CHUNK_OVERLAP)
          /\ overlap_arg = overlapArg
    /\ text = <<>>
    /\ source_name = "notes.txt"
    /\ chunks = <<>>
    /\ start = 0
    /\ chunk_id = 0
    /\ pc_chunk = "idle"

\* create_chunks(text, source_name): entry, locals initialised
CreateChunksCall ==
    /\ pc_chunk \in {"idle", "done"}
    /\ \E t \in SeqsUpTo(Chars, MaxTextLen), s \in SourceNames :
          /\ text' = t
          /\ source_name' = s
    /\ chunks' = <<>>
    /\ start' = 0
    /\ chunk_id' = 0
    /\ pc_chunk' = "loop"
    /\ UNCHANGED <<chunk_size, chunk_overlap, overlap_arg>>
    /\ UNCHANGED <<chatVars, embedVars, storeVars, processVars, sharedVars,
                   contextVars, selectorVars, monitorVars>>

\* one iteration of the while loop
CreateChunksStep ==
    /\ pc_chunk = "loop"
    /\ LoopCondition(start, text)
    /\ Len(chunks) < MaxChunks
    /\ chunks' = Append(chunks, MakeChunk(text, source_name, chunk_id, start, chunk_size))
    /\ chunk_id' = chunk_id + 1
    /\ start' = start + Stride(chunk_size, chunk_overlap)
    /\ UNCHANGED <<chunk_size, chunk_overlap, overlap_arg, text, source_name, pc_chunk>>
    /\ UNCHANGED <<chatVars, embedVars, storeVars, processVars, sharedVars,
                   contextVars, selectorVars, monitorVars>>

\* loop exit, return chunks
CreateChunksReturn ==
    /\ pc_chunk = "loop"
    /\ ~LoopCondition(start, text)
    /\ pc_chunk' = "done"
    /\ UNCHANGED <<chunk_size, chunk_overlap, overlap_arg, text, source_name, chunks,
                   start, chunk_id>>
    /\ UNCHANGED <<chatVars, embedVars, storeVars, processVars, sharedVars,
                   contextVars, selectorVars, monitorVars>>

(***************************************************************************)
(* Claims about create_chunks (checked under SpecChunker)                  *)
(***************************************************************************)
ChunkingDone == pc_chunk = "done"

ValidStride == chunk_size > chunk_overlap /\ chunk_overlap >= 0

\* C1: a configuration with chunk_overlap >= chunk_size (non-positive stride)
\* is rejected before any chunk is produced: create_chunks never appends a
\* chunk under such a configuration.
C1_NonPositiveStrideRejected ==
    chunk_overlap >= chunk_size => chunks = <<>>

\* C2 (as stated): for chunk_size > overlap >= 0 and a text of length L > 0
\* create_chunks returns ceil(max(0, L - overlap) / (chunk_size - overlap))
\* chunks.
C2_ChunkCountAsStated ==
    (ChunkingDone /\ ValidStride /\ Len(text) > 0) =>
        Len(chunks) = CeilDiv(Max(0, Len(text) - chunk_overlap),
                              chunk_size - chunk_overlap)

\* C2 (amended): for chunk_size > overlap >= 0 and a text of length L > 0
\* create_chunks returns ceil(L / (chunk_size - overlap)) chunks.
C2_ChunkCount ==
    (ChunkingDone /\ ValidStride /\ Len(text) > 0) =>
        Len(chunks) = CeilDiv(Len(text), chunk_size - chunk_overlap)

\* a finished run over a text longer than the overlap that needed several chunks
C2_Witness ==
    /\ ChunkingDone /\ ValidStride
    /\ Len(text) > chunk_overlap
    /\ Len(chunks) >= 3

\* C3: for chunk_size > overlap >= 0 and a text of length L > 0 the returned
\* chunks are numbered 0,1,2,... in order, chunk i starts at
\* i * (chunk_size - overlap) (the first at 0), the last ends at exactly L,
\* and every (start_char, end_char) is a half-open range inside [0, L] that
\* holds the chunk's content.
C3_IdsAndOffsets ==
    (ChunkingDone /\ ValidStride /\ Len(text) > 0) =>
        /\ Len(chunks) >= 1
        /\ \A i \in 1..Len(chunks) :
              LET m == chunks[i].metadata
              IN  /\ m.chunk_id = i - 1
                  /\ m.start_char = (i - 1) * (chunk_size - chunk_overlap)
                  /\ 0 <= m.start_char
                  /\ m.start_char <= m.end_char
                  /\ m.end_char <= Len(text)
                  /\ chunks[i].page_content = SubSeq(text, m.start_char + 1, m.end_char)
        /\ chunks[1].metadata.start_char = 0
        /\ chunks[Len(chunks)].metadata.end_char = Len(text)

\* a finished run whose last chunk had to be clipped to the end of the text
C3_Witness ==
    /\ ChunkingDone /\ ValidStride
    /\ Len(chunks) >= 2
    /\ chunks[Len(chunks)].metadata.start_char + chunk_size > Len(text)

\* C4 (as stated): every pair of consecutive chunks shares exactly `overlap`
\* characters (end_char of chunk i minus start_char of chunk i+1), and only
\* the final chunk may be shorter than chunk_size.
C4_ExactOverlapAsStated ==
    (ChunkingDone /\ ValidStride /\ Len(text) > 0) =>
        \A i \in 1..(Len(chunks) - 1) :
            /\ chunks[i].metadata.end_char - chunks[i + 1].metadata.start_char
                  = chunk_overlap
            /\ Len(chunks[i].page_content) = chunk_size

\* the k characters two consecutive chunks share: the tail of the first is
\* the head of the second
SharedBy(c, d, k) ==
    /\ k <= Len(c.page_content)
    /\ k <= Len(d.page_content)
    /\ SubSeq(c.page_content, Len(c.page_content) - k + 1, Len(c.page_content))
          = SubSeq(d.page_content, 1, k)

\* C4 (amended): consecutive chunks i and i+1 share exactly
\* min(overlap, L - start_char of chunk i+1) characters, which is `overlap`
\* whenever chunk i is a full chunk; a chunk is shorter than chunk_size
\* exactly when start_char + chunk_size > L, which may hold for several
\* trailing chunks and not only for the final one.
C4_Overlap ==
    (ChunkingDone /\ ValidStride /\ Len(text) > 0) =>
        /\ \A i \in 1..(Len(chunks) - 1) :
              LET c == chunks[i]
                  d == chunks[i + 1]
                  k == Min(chunk_overlap, Len(text) - d.metadata.start_char)
              IN  /\ c.metadata.end_char - d.metadata.start_char = k
                  /\ SharedBy(c, d, k)
                  /\ (c.metadata.start_char + chunk_size <= Len(text)
                         => k = chunk_overlap)
        /\ \A i \in 1..Len(chunks) :
              (Len(chunks[i].page_content) < chunk_size)
                 <=> (chunks[i].metadata.start_char + chunk_size > Len(text))

\* C26: a processor constructed with chunk_overlap = 0 chunks with overlap
\* 0: the stride equals chunk_size, consecutive chunks are disjoint and
\* adjacent, and create_chunks builds no more than ceil(L / chunk_size)
\* chunks and returns.
C26_ZeroOverlapChunksDisjoint ==
    overlap_arg = 0 =>
        /\ chunk_overlap = 0
        /\ Stride(chunk_size, chunk_overlap) = chunk_size
        /\ \A i \in 1..(Len(chunks) - 1) :
              chunks[i].metadata.end_char = chunks[i + 1].metadata.start_char
        /\ Len(chunks) <= CeilDiv(Len(text), chunk_size)

\* a finished run in which a chunk before the final one is shorter than
\* chunk_size and shares fewer than `overlap` characters with its successor
C4_Witness ==
    /\ ChunkingDone /\ ValidStride
    /\ \E i \in 1..(Len(chunks) - 1) :
          /\ Len(chunks[i].page_content) < chunk_size
          /\ chunks[i].metadata.end_char - chunks[i + 1].metadata.start_char
                < chunk_overlap

(***************************************************************************)
(* Strings of the chatbot model.                                           *)
(*                                                                         *)
(* A prompt is a sequence of one-character strings, so that lower(),       *)
(* strip(), split(), the substring test and the \w{3,} token regex are     *)
(* computed on it.  A document's page_content is represented by what the   *)
(* chatbot reads of it: its length, its length after strip() and its set   *)
(* of lower-cased \w{3,} tokens.  An answer is represented by its type,    *)
(* an identifying text and its length.                                     *)
(***************************************************************************)
UpperCase == <<"A", "B", "C", "D", "E", "F", "G", "H", "I", "J", "K", "L", "M",
               "N", "O", "P", "Q", "R", "S", "T", "U", "V", "W", "X", "Y", "Z">>

LowerCase == <<"a", "b", "c", "d", "e", "f", "g", "h", "i", "j", "k", "l", "m",
               "n", "o", "p", "q", "r", "s", "t", "u", "v", "w", "x", "y", "z">>

Range(f) == {f[i] : i \in DOMAIN f}

Whitespace == {" ", "\n", "\t"}

\* characters matched by \w
WordChars ==
    Range(UpperCase) \cup Range(LowerCase)
        \cup {"_", "0", "1", "2", "3", "4", "5", "6", "7", "8", "9"}

\* str.lower() on one character
LowerChar(c) ==
    IF c \in Range(UpperCase)
    THEN LowerCase[CHOOSE i \in 1..26 : UpperCase[i] = c]
    ELSE c

\* str.lower()
Lower(s) == [i \in 1..Len(s) |-> LowerChar(s[i])]

\* str.strip()
Strip(s) ==
    LET keep == {i \in 1..Len(s) : s[i] \notin Whitespace}
    IN  IF keep = {} THEN <<>>
        ELSE LET lo == CHOOSE i \in keep : \A j \in keep : i <= j
                 hi == CHOOSE i \in keep : \A j \in keep : i >= j
             IN  SubSeq(s, lo, hi)

\* `sub in s` on strings
Contains(sub, s) ==
    \E i \in 0..(Len(s) - Len(sub)) : SubSeq(s, i + 1, i + Len(sub)) = sub

RECURSIVE RunsFrom(_, _, _, _, _, _)
\* the maximal runs of s, from position i on, made of the characters c with
\* (c \in C) = member, in order
RunsFrom(s, i, cur, acc, C, member) ==
    IF i > Len(s)
    THEN IF cur = <<>> THEN acc ELSE Append(acc, cur)
    ELSE IF (s[i] \in C) = member
         THEN RunsFrom(s, i + 1, Append(cur, s[i]), acc, C, member)
         ELSE RunsFrom(s, i + 1, <<>>,
                       IF cur = <<>> THEN acc ELSE Append(acc, cur), C, member)

\* str.split(): the whitespace-separated tokens
Split(s) == RunsFrom(s, 1, <<>>, <<>>, Whitespace, FALSE)

\* re.findall(r'\b\w{3,}\b', s): the maximal \w runs of length >= 3
FindWords(s) ==
    SelectSeq(RunsFrom(s, 1, <<>>, <<>>, WordChars, TRUE), LAMBDA w : Len(w) >= 3)

\* " ".join(words)
RECURSIVE JoinSpace(_)
JoinSpace(ws) ==
    IF ws = <<>> THEN <<>>
    ELSE IF Len(ws) = 1 THEN ws[1]
    ELSE ws[1] \o <<" ">> \o JoinSpace(Tail(ws))

\* len(str(n)) for n >= 0
RECURSIVE Digits(_)
Digits(n) == IF n < 10 THEN 1 ELSE 1 + Digits(n \div 10)

(***************************************************************************)
(* retrieval_qa.py: pure helpers of RAGChatbot                             *)
(***************************************************************************)
W_hi == <<"h", "i">>

W_hello == <<"h", "e", "l", "l", "o">>

W_hey == <<"h", "e", "y">>

W_good_morning == <<"g", "o", "o", "d", " ", "m", "o", "r", "n", "i", "n", "g">>

W_good_afternoon == <<"g", "o", "o", "d", " ", "a", "f", "t", "e", "r", "n", "o", "o", "n">>

W_good_evening == <<"g", "o", "o", "d", " ", "e", "v", "e", "n", "i", "n", "g">>

\* the list `greetings` of _is_simple_greeting
greetings == <<W_hi, W_hello, W_hey, W_good_morning, W_good_afternoon, W_good_evening>>

IsSimpleGreeting_WordCountOnly(query) == Len(Split(query)) <= 3

\* _is_simple_greeting(query)
IsSimpleGreeting(query) ==
    LET query_lower == Strip(Lower(query))
    IN  /\ \E g \in 1..Len(greetings) : Contains(greetings[g], query_lower)
        /\ Len(Split(query)) <= 3

\* the set `stop_words` of _optimize_query, restricted to words of three or
\* more characters (shorter ones never reach the comparison)
stop_words ==
    {<<"t", "h", "e">>, <<"a", "n", "d">>, <<"b", "u", "t">>, <<"f", "o", "r">>, <<"w", "i", "t", "h">>, <<"a", "r", "e">>, <<"w", "a", "s">>, <<"w", "e", "r", "e">>, <<"b", "e", "e", "n">>,
     <<"b", "e", "i", "n", "g">>, <<"h", "a", "v", "e">>, <<"h", "a", "s">>, <<"h", "a", "d">>, <<"d", "o", "e", "s">>, <<"d", "i", "d">>, <<"w", "i", "l", "l">>, <<"w", "o", "u", "l", "d">>,
     <<"c", "o", "u", "l", "d">>, <<"s", "h", "o", "u", "l", "d">>}

\* _optimize_query(query)
OptimizeQuery(query) ==
    LET words     == FindWords(Lower(query))
        key_terms == SelectSeq(words, LAMBDA w : w \notin stop_words)
    IN  IF key_terms # <<>>
        THEN query \o <<" ">> \o JoinSpace(SubSeq(key_terms, 1, Min(5, Len(key_terms))))
        ELSE query

\* config.SIMILARITY_SEARCH_K
SIMILARITY_SEARCH_K == 4

\* self.max_memory_items
max_memory_items == 10

\* self.max_context_length
max_context_length == 8000

\* len(metadata["source"])
SourceLen(name) ==
    CASE name = "notes.txt"  -> 9
      [] name = "Report.PDF" -> 10
      [] OTHER               -> 0

\* score of _rerank_documents, times 100 (the code divides the length by 100):
\* word_overlap * 10 + min(content_length / 100, 10)
Score100(doc, query_words) ==
    Cardinality(query_words \cap doc.page_content.words) * 1000
        + Min(doc.page_content.len, 1000)

RerankDocuments_TiesReversed(docs, query_words) ==
    LET sc(i) == Score100(docs[i], query_words)
        before(j, i) == sc(j) > sc(i) \/ (sc(j) = sc(i) /\ j > i)
        rank(i) == Cardinality({j \in 1..Len(docs) : before(j, i)}) + 1
    IN  [r \in 1..Len(docs) |-> docs[CHOOSE i \in 1..Len(docs) : rank(i) = r]]

\* _rerank_documents(docs, query), given the set query_words it computes from
\* the query: list.sort(key=score, reverse=True), which is stable
RerankDocuments(docs, query_words) ==
    LET sc(i) == Score100(docs[i], query_words)
        before(j, i) == sc(j) > sc(i) \/ (sc(j) = sc(i) /\ j < i)
        rank(i) == Cardinality({j \in 1..Len(docs) : before(j, i)}) + 1
    IN  [r \in 1..Len(docs) |-> docs[CHOOSE i \in 1..Len(docs) : rank(i) = r]]

\* lst[:n]
Take(lst, n) == SubSeq(lst, 1, Min(n, Len(lst)))

\* lst[-n:]
LastN(lst, n) == SubSeq(lst, Max(1, Len(lst) - n + 1), Len(lst))

RECURSIVE SumSeq(_)
\* sum of a sequence of numbers
SumSeq(lst) == IF lst = <<>> THEN 0 ELSE Head(lst) + SumSeq(Tail(lst))

\* len(f"[Source {i}: {source}]\n{content}") with content stripped
SectionLen(doc, i) ==
    8 + Digits(i) + 2 + SourceLen(doc.metadata.source) + 2
        + doc.page_content.stripped_len

\* length of the string built by _prepare_context(docs, prompt)
PrepareContextLen(docs) ==
    IF docs = <<>>
    THEN 28                         \* "No relevant documents found."
    ELSE LET n == Len(docs)
             parts == [i \in 1..n |-> SectionLen(docs[i], i)]
             \* "\n\n" + "="*50 + "\n\n".join(context_parts)
             total_chars == 2 + 50 + SumSeq(parts) + 2 * (n - 1)
             header == 18 + Digits(n) + 20 + Digits(total_chars) + 20
         IN  header + total_chars

HistoryOf_WholeMemory(mem) ==
    [i \in 1..Len(mem) |->
        [question    |-> mem[i].question,
         answer_head |-> Min(mem[i].answer.len, 200)]]

\* the exchanges _get_memory_context formats, with the answer cut to 200
HistoryOf(mem) ==
    LET recent == LastN(mem, 3)
    IN  [i \in 1..Len(recent) |->
            [question    |-> recent[i].question,
             answer_head |-> Min(recent[i].answer.len, 200)]]

\* whether _get_memory_context raises: exchange['answer'][:200] on a value
\* that is not a string
MemoryContextRaises(mem) ==
    \E i \in 1..Len(LastN(mem, 3)) : LastN(mem, 3)[i].answer.type # "str"

\* length of the string returned by _get_memory_context
MemoryContextLen(mem) ==
    IF mem = <<>> THEN 0
    ELSE LET h == HistoryOf(mem)
             \* "Previous Q: ..." and "Previous A: ......" lines
             lines == SumSeq([i \in 1..Len(h) |->
                         (12 + Len(h[i].question)) + (12 + h[i].answer_head + 3)])
         IN  23 + lines + (2 * Len(h) - 1) + 14

\* the context chat hands to llm_answer: lines 47-52
AssembleContext(ranked_docs, mem) ==
    [history  |-> IF mem = <<>> THEN <<>> ELSE HistoryOf(mem),
     sections |-> ranked_docs,
     len      |-> IF mem = <<>>
                  THEN PrepareContextLen(ranked_docs)
                  ELSE MemoryContextLen(mem) + 2 + PrepareContextLen(ranked_docs)]

StrAnswer(txt, n) == [type |-> "str", text |-> txt, len |-> n]

GenerationOutcomes ==
    {"ok_short", "ok_long", "request_error", "not_an_object", "missing_response",
     "null_response"}

\* llm_answer(prompt, context): what it returns for each outcome of the
\* POST to /api/generate
LlmAnswer(outcome) ==
    CASE outcome = "ok_short"         -> StrAnswer("answer", 42)
      [] outcome = "ok_long"          -> StrAnswer("long answer", 650)
      \* ConnectionError, Timeout, HTTPError of raise_for_status
      [] outcome = "request_error"    -> StrAnswer("Error communicating with Ollama", 33 + 24)
      \* r.json() is not a dict: data.get raises AttributeError
      [] outcome = "not_an_object"    -> StrAnswer("Error processing response", 27 + 38)
      \* data.get("response", "[No answer returned]") without the key
      [] outcome = "missing_response" -> StrAnswer("[No answer returned]", 20)
      \* {"response": null}: data.get returns None
      [] outcome = "null_response"    -> [type |-> "NoneType", text |-> "None", len |-> 0]

UpdateMemory_NoEviction(mem, question, answer, now) ==
    Append(mem, [question |-> question, answer |-> answer, timestamp |-> now])

\* _update_memory(question, answer)
UpdateMemory(mem, question, answer, now) ==
    LET extended == Append(mem, [question |-> question, answer |-> answer,
                                 timestamp |-> now])
    IN  IF Len(extended) > max_memory_items
        THEN LastN(extended, max_memory_items)
        ELSE extended

RECURSIVE GCD(_, _)
GCD(a, b) == IF b = 0 THEN a ELSE GCD(b, a % b)

\* a non-negative rational in lowest terms
Rat(n, d) == LET g == GCD(n, d) IN [num |-> n \div g, den |-> d \div g]

\* (avg * (queries - 1) + t) / queries
UpdateAverage(avg, queries, t) ==
    Rat(avg.num * (queries - 1) + t * avg.den, avg.den * queries)

UpdateStats_WeighsByNewCount(stats, retrieval_time, generation_time) ==
    LET queries == stats.queries + 1
        Average(avg, t) == Rat(avg.num * queries + t * avg.den, avg.den * queries)
    IN  [queries             |-> queries,
         avg_retrieval_time  |-> Average(stats.avg_retrieval_time, retrieval_time),
         avg_generation_time |-> Average(stats.avg_generation_time, generation_time),
         cache_hits          |-> stats.cache_hits]

\* _update_stats(retrieval_time, generation_time)
UpdateStats(stats, retrieval_time, generation_time) ==
    LET queries == stats.queries + 1
    IN  [queries             |-> queries,
         avg_retrieval_time  |-> UpdateAverage(stats.avg_retrieval_time, queries, retrieval_time),
         avg_generation_time |-> UpdateAverage(stats.avg_generation_time, queries, generation_time),
         cache_hits          |-> stats.cache_hits]

(***************************************************************************)
(* RAGChatbot: inputs of the model                                         *)
(***************************************************************************)
P_hi_there == <<"h", "i", " ", "t", "h", "e", "r", "e">>

P_Hello == <<"H", "e", "l", "l", "o">>

P_this_works == <<"t", "h", "i", "s", " ", "w", "o", "r", "k", "s">>

P_what_is_chunking == <<"w", "h", "a", "t", " ", "i", "s", " ", "c", "h", "u", "n", "k", "i", "n", "g", "?">>

P_hello_explain == <<"h", "e", "l", "l", "o", " ", "p", "l", "e", "a", "s", "e", " ", "e", "x", "p", "l", "a", "i", "n", " ", "t", "h", "e", " ", "r", "e", "p", "o", "r", "t">>

Prompts == {P_hi_there, P_Hello, P_this_works, P_what_is_chunking, P_hello_explain}

Doc(src, id, n, stripped, ws) ==
    [page_content |-> [len |-> n, stripped_len |-> stripped, words |-> ws],
     metadata     |-> [source |-> src, chunk_id |-> id]]

\* chunks of the size the chunk-size slider allows (app.py: 200..3000)
DocA == Doc("notes.txt", 0, 3000, 3000, {<<"c", "h", "u", "n", "k", "i", "n", "g">>, <<"p", "o", "l", "i", "c", "y">>})

DocB == Doc("notes.txt", 1, 3000, 2990, {<<"r", "e", "p", "o", "r", "t">>, <<"p", "o", "l", "i", "c", "y">>})

DocC == Doc("Report.PDF", 0, 3000, 3000, {<<"r", "e", "p", "o", "r", "t">>, <<"e", "x", "p", "l", "a", "i", "n">>, <<"p", "l", "e", "a", "s", "e">>})

DocD == Doc("Report.PDF", 1, 3000, 2998, {<<"o", "t", "h", "e", "r">>})

DocE == Doc("Report.PDF", 2, 240, 240, {<<"c", "h", "u", "n", "k", "i", "n", "g">>})

\* what collection.query may hand back for n_results = 8
Retrievals == {<<>>, <<DocE>>, <<DocA, DocB, DocC, DocD, DocE>>}

\* elapsed times in milliseconds; round(t, 3) of a time in seconds keeps them
RetrievalTimes == {1, 3}

GenerationTimes == {2}

\* bound on the completed non-greeting turns under SpecChat
MaxChatTurns == 2

\* bound on the completed non-greeting turns under SpecMemory
MaxMemoryTurns == 11

\* bound on the completed non-greeting turns under SpecHistory
MaxHistoryTurns == 5

(***************************************************************************)
(* RAGChatbot: state and operations                                        *)
(***************************************************************************)
NoAnswer == [type |-> "absent", text |-> "", len |-> 0]

ZeroStats == [retrieval_time |-> 0, generation_time |-> 0, total_time |-> 0]

\* RAGChatbot.__init__
InitChatbot ==
    /\ memory = <<>>
    /\ appended = <<>>
    /\ performance_stats = [queries |-> 0,
                            avg_retrieval_time  |-> Rat(0, 1),
                            avg_generation_time |-> Rat(0, 1),
                            cache_hits |-> 0]
    /\ clock = 0
    /\ chat_result = [status |-> "none", prompt |-> <<>>, answer |-> NoAnswer,
                      sources |-> <<>>, stats |-> ZeroStats, error |-> ""]
    /\ store_calls = <<>>
    /\ retrieved_docs = <<>>
    /\ gen_calls = <<>>
    /\ turn_times = <<>>

\* _is_simple_greeting, _optimize_query and the query words of
\* _rerank_documents, tabulated once over the prompts of the model
GreetingPrompts == {p \in Prompts : IsSimpleGreeting(p)}

OptimizedQueryOf == [p \in Prompts |-> OptimizeQuery(p)]

QueryWordsOf == [p \in Prompts |-> Range(FindWords(Lower(p)))]

SearchCall_NoOverFetch(prompt) ==
    [query_text |-> OptimizedQueryOf[prompt], k |-> SIMILARITY_SEARCH_K]

\* the similarity_search call of chat: line 40
SearchCall(prompt) ==
    [query_text |-> OptimizedQueryOf[prompt], k |-> SIMILARITY_SEARCH_K * 2]

GreetingReply_Timed(prompt) ==
    [status  |-> "returned",
     prompt  |-> prompt,
     answer  |-> StrAnswer("Hi! I'm here to help you", 90),
     sources |-> <<>>,
     stats   |-> [retrieval_time |-> 0, generation_time |-> 0, total_time |-> 1],
     error   |-> ""]

\* the dictionary chat returns on the greeting fast path: lines 29-33
GreetingReply(prompt) ==
    [status  |-> "returned",
     prompt  |-> prompt,
     answer  |-> StrAnswer("Hi! I'm here to help you", 90),
     sources |-> <<>>,
     stats   |-> ZeroStats,
     error   |-> ""]

\* chat(prompt), lines 28-33: the greeting fast path
ChatGreeting(P) ==
    /\ \E prompt \in P \cap GreetingPrompts :
          chat_result' = GreetingReply(prompt)
    /\ store_calls' = <<>>
    /\ retrieved_docs' = <<>>
    /\ gen_calls' = <<>>
    /\ UNCHANGED <<memory, appended, performance_stats, clock, turn_times>>
    /\ UNCHANGED <<chunkerVars, embedVars, storeVars, processVars, sharedVars,
                   contextVars, selectorVars, monitorVars>>

ChatRetrievalFails_CountsQuery(P) ==
    /\ \E prompt \in P \ GreetingPrompts :
          /\ store_calls' = <<SearchCall(prompt)>>
          /\ chat_result' = [status  |-> "raised",
                             prompt  |-> prompt,
                             answer  |-> NoAnswer,
                             sources |-> <<>>,
                             stats   |-> ZeroStats,
                             error   |-> "Error searching vector store"]
    /\ retrieved_docs' = <<>>
    /\ gen_calls' = <<>>
    /\ performance_stats' =
          [performance_stats EXCEPT !.queries = performance_stats.queries + 1]
    /\ UNCHANGED <<memory, appended, clock, turn_times>>
    /\ UNCHANGED <<chunkerVars, embedVars, storeVars, processVars, sharedVars,
                   contextVars, selectorVars, monitorVars>>

\* chat(prompt), lines 28-40: similarity_search raises and chat with it
ChatRetrievalFails(P) ==
    /\ \E prompt \in P \ GreetingPrompts :
          /\ store_calls' = <<SearchCall(prompt)>>
          /\ chat_result' = [status  |-> "raised",
                             prompt  |-> prompt,
                             answer  |-> NoAnswer,
                             sources |-> <<>>,
                             stats   |-> ZeroStats,
                             error   |-> "Error searching vector store"]
    /\ retrieved_docs' = <<>>
    /\ gen_calls' = <<>>
    /\ UNCHANGED <<memory, appended, performance_stats, clock, turn_times>>
    /\ UNCHANGED <<chunkerVars, embedVars, storeVars, processVars, sharedVars,
                   contextVars, selectorVars, monitorVars>>

\* chat(prompt), lines 28-50: _get_memory_context raises TypeError on a
\* remembered answer that is not a string, and chat with it
ChatMemoryContextRaises(P, R) ==
    /\ MemoryContextRaises(memory)
    /\ \E prompt \in P \ GreetingPrompts, docs \in R :
          /\ store_calls' = <<SearchCall(prompt)>>
          /\ retrieved_docs' = docs
          /\ chat_result' = [status  |-> "raised",
                             prompt  |-> prompt,
                             answer  |-> NoAnswer,
                             sources |-> <<>>,
                             stats   |-> ZeroStats,
                             error   |-> "TypeError"]
    /\ gen_calls' = <<>>
    /\ UNCHANGED <<memory, appended, performance_stats, clock, turn_times>>
    /\ UNCHANGED <<chunkerVars, embedVars, storeVars, processVars, sharedVars,
                   contextVars, selectorVars, monitorVars>>

ChatCompletes_AssemblesBeforeRerank(P, R, G, RT, GT, maxTurns) ==
    /\ performance_stats.queries < maxTurns
    /\ ~MemoryContextRaises(memory)
    /\ \E prompt \in P \ GreetingPrompts, docs \in R :
          LET ranked_docs == Take(RerankDocuments(docs, QueryWordsOf[prompt]), SIMILARITY_SEARCH_K)
              context     == AssembleContext(Take(docs, SIMILARITY_SEARCH_K), memory)
              search      == SearchCall(prompt)
          IN  \E outcome \in G, retrieval_time \in RT, generation_time \in GT :
                 LET answer == LlmAnswer(outcome)
                 IN  /\ store_calls' = <<search>>
                     /\ retrieved_docs' = docs
                     /\ gen_calls' = <<[prompt |-> prompt, context |-> context]>>
                     /\ memory' = UpdateMemory(memory, prompt, answer, clock + 1)
                     /\ appended' = Append(appended, [question  |-> prompt,
                                                      answer    |-> answer,
                                                      timestamp |-> clock + 1])
                     /\ performance_stats' =
                           UpdateStats(performance_stats, retrieval_time, generation_time)
                     /\ turn_times' = Append(turn_times, <<retrieval_time, generation_time>>)
                     /\ chat_result' =
                           [status  |-> "returned",
                            prompt  |-> prompt,
                            answer  |-> answer,
                            sources |-> ranked_docs,
                            stats   |-> [retrieval_time  |-> retrieval_time,
                                         generation_time |-> generation_time,
                                         total_time      |-> retrieval_time + generation_time],
                            error   |-> ""]
    /\ clock' = clock + 1
    /\ UNCHANGED <<chunkerVars, embedVars, storeVars, processVars, sharedVars,
                   contextVars, selectorVars, monitorVars>>

\* chat(prompt), lines 28-69: a turn that runs to its return
ChatCompletes(P, R, G, RT, GT, maxTurns) ==
    /\ performance_stats.queries < maxTurns
    /\ ~MemoryContextRaises(memory)
    /\ \E prompt \in P \ GreetingPrompts, docs \in R :
          LET ranked_docs == Take(RerankDocuments(docs, QueryWordsOf[prompt]), SIMILARITY_SEARCH_K)
              context     == AssembleContext(ranked_docs, memory)
              search      == SearchCall(prompt)
          IN  \E outcome \in G, retrieval_time \in RT, generation_time \in GT :
                 LET answer == LlmAnswer(outcome)
                 IN  /\ store_calls' = <<search>>
                     /\ retrieved_docs' = docs
                     /\ gen_calls' = <<[prompt |-> prompt, context |-> context]>>
                     /\ memory' = UpdateMemory(memory, prompt, answer, clock + 1)
                     /\ appended' = Append(appended, [question  |-> prompt,
                                                      answer    |-> answer,
                                                      timestamp |-> clock + 1])
                     /\ performance_stats' =
                           UpdateStats(performance_stats, retrieval_time, generation_time)
                     /\ turn_times' = Append(turn_times, <<retrieval_time, generation_time>>)
                     /\ chat_result' =
                           [status  |-> "returned",
                            prompt  |-> prompt,
                            answer  |-> answer,
                            sources |-> ranked_docs,
                            stats   |-> [retrieval_time  |-> retrieval_time,
                                         generation_time |-> generation_time,
                                         total_time      |-> retrieval_time + generation_time],
                            error   |-> ""]
    /\ clock' = clock + 1
    /\ UNCHANGED <<chunkerVars, embedVars, storeVars, processVars, sharedVars,
                   contextVars, selectorVars, monitorVars>>

\* clear_memory()
ClearMemory ==
    /\ memory' = <<>>
    /\ appended' = <<>>
    /\ UNCHANGED <<performance_stats, clock, chat_result, store_calls,
                   retrieved_docs, gen_calls, turn_times>>
    /\ UNCHANGED <<chunkerVars, embedVars, storeVars, processVars, sharedVars,
                   contextVars, selectorVars, monitorVars>>

(***************************************************************************)
(* EmbeddingManager (embeddings.py)                                        *)
(*                                                                         *)
(* The cache directory is a function from cache keys to file contents.     *)
(* Writes to the cache directory are taken to succeed.                     *)
(***************************************************************************)
Texts == {"alpha", "beta", "gamma"}

\* bound on the number of texts handed to one embed_text call
MaxTexts == 3

\* bound on the batch_size argument of embed_text
MaxBatchSize == 2

\* config.OLLAMA_EMBEDDING_MODEL
OLLAMA_EMBEDDING_MODEL == "nomic-embed-text:latest"

\* _get_cache_key(text): the md5 digest of f"{model}:{text}", taken to be
\* free of collisions
GetCacheKey(txt) == <<OLLAMA_EMBEDDING_MODEL, ":", txt>>

CacheKeys == {GetCacheKey(t) : t \in Texts}

\* the vector the provider computes for a text
ProviderEmbedding(txt) ==
    CASE txt = "alpha" -> <<1, 0>>
      [] txt = "beta"  -> <<0, 1>>
      [] txt = "gamma" -> <<1, 1>>

\* An embedding is a list of floats.  The model's floats have one decimal
\* digit and are held as a whole number of tenths: -12 is the float -1.2.
DigitChars == <<"0", "1", "2", "3", "4", "5", "6", "7", "8", "9">>

RECURSIVE DecimalDigits(_)
\* the decimal digits of a natural number
DecimalDigits(n) ==
    IF n < 10 THEN <<DigitChars[n + 1]>>
    ELSE Append(DecimalDigits(n \div 10), DigitChars[(n % 10) + 1])

\* float.__repr__, which json.dump writes for a float: "-1.2", "0.5", "1.0"
FloatRepr(tenths) ==
    LET mag == IF tenths < 0 THEN 0 - tenths ELSE tenths
    IN  (IF tenths < 0 THEN <<"-">> ELSE <<>>)
            \o DecimalDigits(mag \div 10) \o <<".">> \o DecimalDigits(mag % 10)

RECURSIVE JsonItems(_, _)
\* the items of a list from the i-th on, separated by ", "
JsonItems(v, i) ==
    IF i > Len(v) THEN <<>>
    ELSE (IF i > 1 THEN <<",", " ">> ELSE <<>>) \o FloatRepr(v[i]) \o JsonItems(v, i + 1)

\* json.dumps(embedding) with the default separators: "[0.1, -1.2]"
JsonDumps(v) == <<"[">> \o JsonItems(v, 1) \o <<"]">>

\* the value of a digit character, -1 for any other character
DigitValue(c) ==
    IF \E d \in 1..10 : DigitChars[d] = c
    THEN (CHOOSE d \in 1..10 : DigitChars[d] = c) - 1
    ELSE -1

RECURSIVE NatValue(_, _)
\* the number written by the first i characters of the digit string t
NatValue(t, i) ==
    IF i = 0 THEN 0 ELSE 10 * NatValue(t, i - 1) + DigitValue(t[i])

\* no value: the text is not JSON
JsonError == [ok |-> FALSE, value |-> <<>>]

\* the JSON number "-"? digits "." digit written by t, as tenths
ParseFloat(t) ==
    LET neg  == Len(t) > 0 /\ t[1] = "-"
        body == IF neg THEN Tail(t) ELSE t
        dots == {i \in 1..Len(body) : body[i] = "."}
        dot  == CHOOSE i \in dots : TRUE
    IN  IF /\ Cardinality(dots) = 1
           /\ dot > 1
           /\ Len(body) = dot + 1
           /\ \A i \in 1..Len(body) : i # dot => DigitValue(body[i]) >= 0
        THEN [ok    |-> TRUE,
              value |-> (IF neg THEN -1 ELSE 1)
                           * (10 * NatValue(body, dot - 1) + DigitValue(body[dot + 1]))]
        ELSE JsonError

\* the positions of the commas of t
CommasOf(t) == {i \in 1..Len(t) : t[i] = ","}

\* the position of the k-th comma of t
NthComma(t, k) ==
    CHOOSE i \in CommasOf(t) : Cardinality({j \in CommasOf(t) : j < i}) = k - 1

\* the k-th of the comma-separated items of t, without the spaces around it
ItemOf(t, k) ==
    LET n  == Cardinality(CommasOf(t))
        lo == IF k = 1 THEN 1 ELSE NthComma(t, k - 1) + 1
        hi == IF k = n + 1 THEN Len(t) ELSE NthComma(t, k) - 1
    IN  Strip(SubSeq(t, lo, hi))

\* json.loads(s) of the texts a cache file of the model holds: an array of
\* floats is decoded, any other text of the model raises JSONDecodeError
JsonLoads(s) ==
    LET body  == Strip(s)
        inner == SubSeq(body, 2, Len(body) - 1)
        items == [k \in 1..(Cardinality(CommasOf(inner)) + 1) |->
                     ParseFloat(ItemOf(inner, k))]
    IN  IF Len(body) < 2 \/ body[1] # "[" \/ body[Len(body)] # "]" THEN JsonError
        ELSE IF Strip(inner) = <<>> THEN [ok |-> TRUE, value |-> <<>>]
        ELSE IF \A k \in DOMAIN items : items[k].ok
             THEN [ok |-> TRUE, value |-> [k \in DOMAIN items |-> items[k].value]]
        ELSE JsonError

\* the vectors _save_to_cache is called with directly
Embeddings == {<<>>, <<-12, 5>>, <<100, 0, -1>>}

\* file contents: no file, or a file and the text it holds
Absent == [kind |-> "absent", doc |-> <<>>]

\* a file left by an interrupted write: json.load rejects it
Corrupt == [kind |-> "file", doc |-> <<"[", "0", ".">>]

\* json.dump(embedding, f) into a file opened with 'w'
JsonDump(v) == [kind |-> "file", doc |-> JsonDumps(v)]

\* json.load(f): f.read() gives the text, json.loads decodes it
JsonLoad(file) == CHOOSE decoded \in {JsonLoads(read) : read \in {file.doc}} : TRUE

\* None
None == <<"None">>

LoadFromCache_KeepsCorruptFile(files, key) ==
    IF files[key].kind = "file" /\ JsonLoad(files[key]).ok
    THEN [status |-> "returned", value |-> JsonLoad(files[key]).value,
          files |-> files, unlinked |-> {}]
    ELSE [status |-> "returned", value |-> None, files |-> files, unlinked |-> {}]

\* _load_from_cache(cache_key), with cache_enabled = True: the value it
\* returns, the files it leaves and the files it deleted
LoadFromCache(files, key) ==
    IF files[key].kind = "absent"
    THEN [status |-> "returned", value |-> None, files |-> files, unlinked |-> {}]
    ELSE LET Loaded(loaded) ==
                IF loaded.ok
                THEN [status |-> "returned", value |-> loaded.value,
                      files |-> files, unlinked |-> {}]
                \* json.load raises: cache_path.unlink(missing_ok=True), return None
                ELSE [status |-> "returned", value |-> None,
                      files |-> [files EXCEPT ![key] = Absent], unlinked |-> {key}]
         IN  CHOOSE out \in {Loaded(loaded) : loaded \in {JsonLoad(files[key])}} : TRUE

SaveToCache_Skipped(files, key, embedding) == files

\* _save_to_cache(cache_key, embedding)
SaveToCache(files, key, embedding) == [files EXCEPT ![key] = JsonDump(embedding)]

SortByIndex_Unsorted(pairs) == pairs

\* batch_embeddings.sort(key=lambda x: x[0]): the indices are distinct
SortByIndex(pairs) ==
    LET rank(i) == Cardinality({j \in 1..Len(pairs) : pairs[j][1] < pairs[i][1]}) + 1
    IN  [r \in 1..Len(pairs) |-> pairs[CHOOSE i \in 1..Len(pairs) : rank(i) = r]]

RECURSIVE FirstPass(_, _, _)
\* _process_batch, lines 84-92: the cache look-ups, text idx+1 of the batch on
\* st: the files, the (idx, embedding) hits, the misses and what was deleted
FirstPass(st, batch_texts, idx) ==
    IF idx >= Len(batch_texts) \/ st.status # "returned" THEN st
    ELSE LET txt == batch_texts[idx + 1]
             \* the state after the look-up of txt returned loaded
             Looked(loaded) ==
                LET hit == loaded.status = "returned" /\ loaded.value # None
                IN  [status           |-> loaded.status,
                     error            |-> IF loaded.status = "returned" THEN ""
                                          ELSE "cache load",
                     files            |-> loaded.files,
                     unlinked         |-> st.unlinked \cup loaded.unlinked,
                     batch_embeddings |-> IF hit
                                          THEN Append(st.batch_embeddings,
                                                      <<idx, loaded.value>>)
                                          ELSE st.batch_embeddings,
                     uncached_texts   |-> IF hit THEN st.uncached_texts
                                          ELSE Append(st.uncached_texts, txt),
                     uncached_indices |-> IF hit THEN st.uncached_indices
                                          ELSE Append(st.uncached_indices, idx),
                     calls            |-> st.calls,
                     saves            |-> st.saves,
                     fail_at          |-> st.fail_at,
                     fail_kind        |-> st.fail_kind]
         IN  \* cached = self._load_from_cache(cache_key) is called once, and
             \* the loop goes on from the state it leaves
             CHOOSE out \in
                {FirstPass(next, batch_texts, idx + 1) :
                    next \in {Looked(loaded) :
                                loaded \in {LoadFromCache(st.files, GetCacheKey(txt))}}} :
                TRUE

RECURSIVE SecondPass(_, _)
\* _process_batch, lines 95-114: one POST per uncached text, in order; the
\* POST numbered fail_at of the embed_text call fails
SecondPass(st, i) ==
    IF i >= Len(st.uncached_texts) \/ st.status # "returned" THEN st
    ELSE LET txt   == st.uncached_texts[i + 1]
             calls == Append(st.calls, txt)
         IN  IF Len(calls) = st.fail_at
             THEN [st EXCEPT !.status = "raised",
                             !.calls  = calls,
                             \* RequestException, or no "embedding" in data
                             !.error  = IF st.fail_kind = "request_error"
                                        THEN "Request error"
                                        ELSE "Embedding error"]
             ELSE LET embedding == ProviderEmbedding(txt)
                  IN  CHOOSE out \in
                         {SecondPass(next, i + 1) :
                             next \in
                                {[st EXCEPT
                                     !.calls = calls,
                                     !.batch_embeddings =
                                         Append(@, <<st.uncached_indices[i + 1], embedding>>),
                                     !.files = SaveToCache(@, GetCacheKey(txt), embedding),
                                     !.saves = Append(@, <<GetCacheKey(txt), embedding>>)]}} :
                         TRUE

ProcessBatch_SkipsCacheLookup(st, batch_texts) ==
    LET fresh == [st EXCEPT !.batch_embeddings = <<>>,
                            !.uncached_texts = batch_texts,
                            !.uncached_indices = [i \in 1..Len(batch_texts) |-> i - 1]]
    IN  CHOOSE out \in
           {[filled EXCEPT !.batch_embeddings =
                [r \in 1..Len(@) |-> SortByIndex(filled.batch_embeddings)[r][2]]] :
               filled \in {SecondPass(fresh, 0)}} :
           TRUE

\* _process_batch(batch_texts, url) from the state st of the embed_text call
ProcessBatch(st, batch_texts) ==
    LET fresh  == [st EXCEPT !.batch_embeddings = <<>>,
                             !.uncached_texts = <<>>,
                             !.uncached_indices = <<>>]
        \* lines 116-118: sort by index, keep the embeddings
        Sorted(filled) ==
            [filled EXCEPT !.batch_embeddings =
                [r \in 1..Len(@) |-> SortByIndex(filled.batch_embeddings)[r][2]]]
    IN  CHOOSE out \in
           {Sorted(filled) :
               filled \in {SecondPass(looked, 0) :
                             looked \in {FirstPass(fresh, batch_texts, 0)}}} :
           TRUE

RECURSIVE EmbedBatches(_, _, _, _, _)
\* embed_text, lines 70-75: the loop over the batches
EmbedBatches(st, text_list, i, batch_size, embeddings) ==
    IF i >= Len(text_list)
    THEN [status |-> "returned", value |-> embeddings, error |-> "",
          files |-> st.files, calls |-> st.calls, unlinked |-> st.unlinked,
          saves |-> st.saves]
    ELSE LET batch == PySlice(text_list, i, i + batch_size)
             \* the loop after _process_batch left the state done
             Extended(done) ==
                IF done.status # "returned"
                THEN [status |-> "raised", value |-> <<>>, error |-> done.error,
                      files |-> done.files, calls |-> done.calls,
                      unlinked |-> done.unlinked, saves |-> done.saves]
                ELSE EmbedBatches(done, text_list, i + batch_size, batch_size,
                                  embeddings \o done.batch_embeddings)
         IN  CHOOSE out \in {Extended(done) : done \in {ProcessBatch(st, batch)}} : TRUE

\* embed_text(texts, batch_size): texts is a string or a list of strings
EmbedTextResult(files, texts, batch_size, fail_at, fail_kind) ==
    LET \* a string argument is wrapped into a one-element list
        text_list == IF texts.is_str THEN <<texts.str>> ELSE texts.list
        st0 == [status |-> "returned", error |-> "", files |-> files,
                unlinked |-> {}, batch_embeddings |-> <<>>,
                uncached_texts |-> <<>>, uncached_indices |-> <<>>,
                calls |-> <<>>, saves |-> <<>>, fail_at |-> fail_at,
                fail_kind |-> fail_kind]
    IN  EmbedBatches(st0, text_list, 0, batch_size, <<>>)

\* the arguments embed_text is called with in the model
TextArguments ==
    {[is_str |-> TRUE, str |-> t, list |-> <<>>] : t \in Texts}
        \cup {[is_str |-> FALSE, str |-> "", list |-> l] : l \in SeqsUpTo(Texts, MaxTexts)}

\* EmbeddingManager.__init__ over a cache directory left by earlier runs:
\* each entry is missing, intact or damaged
InitEmbedding ==
    /\ cache \in {f \in [CacheKeys -> {Absent, Corrupt}
                                          \cup {JsonDump(ProviderEmbedding(t)) : t \in Texts}] :
                     \A t \in Texts :
                        f[GetCacheKey(t)] \in {Absent, Corrupt,
                                               JsonDump(ProviderEmbedding(t))}}
    /\ embed_result = [op |-> "none", status |-> "returned", key |-> <<>>,
                       texts |-> <<>>, value |-> <<>>, error |-> ""]
    /\ provider_calls = <<>>
    /\ unlinked = {}
    /\ saved = [k \in CacheKeys |-> None]

\* EmbeddingManager() that is not used
InitEmbeddingIdle ==
    /\ cache = [k \in CacheKeys |-> Absent]
    /\ embed_result = [op |-> "none", status |-> "returned", key |-> <<>>,
                       texts |-> <<>>, value |-> <<>>, error |-> ""]
    /\ provider_calls = <<>>
    /\ unlinked = {}
    /\ saved = [k \in CacheKeys |-> None]

\* a call of _load_from_cache(cache_key)
LoadFromCacheCall ==
    /\ embed_result.op = "none"
    /\ \E key \in CacheKeys :
          \E r \in {LoadFromCache(cache, key)} :
              /\ cache' = r.files
              /\ unlinked' = r.unlinked
              /\ embed_result' = [op |-> "_load_from_cache", status |-> r.status,
                                  key |-> key, texts |-> <<>>, value |-> r.value,
                                  error |-> ""]
    /\ provider_calls' = <<>>
    /\ UNCHANGED saved
    /\ UNCHANGED <<chunkerVars, chatVars, storeVars, processVars, sharedVars,
                   contextVars, selectorVars, monitorVars>>

\* a call of _save_to_cache(cache_key, embedding)
SaveToCacheCall ==
    /\ embed_result.op = "none"
    /\ \E key \in CacheKeys, embedding \in Embeddings :
          /\ cache' = SaveToCache(cache, key, embedding)
          /\ saved' = [saved EXCEPT ![key] = embedding]
          /\ embed_result' = [op |-> "_save_to_cache", status |-> "returned",
                              key |-> key, texts |-> <<>>, value |-> embedding,
                              error |-> ""]
    /\ provider_calls' = <<>>
    /\ unlinked' = {}
    /\ UNCHANGED <<chunkerVars, chatVars, storeVars, processVars, sharedVars,
                   contextVars, selectorVars, monitorVars>>

RECURSIVE AfterSaves(_, _)
\* the last value handed to _save_to_cache for each key, after the calls of
\* the sequence saves
AfterSaves(last, saves) ==
    IF saves = <<>> THEN last
    ELSE AfterSaves([last EXCEPT ![Head(saves)[1]] = Head(saves)[2]], Tail(saves))

\* a call of embed_text(texts, batch_size); the fail_at-th POST fails
EmbedTextOver(Arguments, BatchSizes, FailAt) ==
    /\ embed_result.op = "none"
    /\ \E texts \in Arguments, batch_size \in BatchSizes,
          fail_at \in FailAt, fail_kind \in {"request_error", "no_embedding"} :
          \E r \in {EmbedTextResult(cache, texts, batch_size, fail_at, fail_kind)} :
              /\ (fail_at = 0 => fail_kind = "request_error")
              /\ cache' = r.files
              /\ unlinked' = r.unlinked
              /\ provider_calls' = r.calls
              /\ saved' = AfterSaves(saved, r.saves)
              /\ embed_result' =
                    [op |-> "embed_text", status |-> r.status, key |-> <<>>,
                     texts |-> IF texts.is_str THEN <<texts.str>> ELSE texts.list,
                     value |-> r.value, error |-> r.error]
    /\ UNCHANGED <<chunkerVars, chatVars, storeVars, processVars, sharedVars,
                   contextVars, selectorVars, monitorVars>>

EmbedText == EmbedTextOver(TextArguments, 1..MaxBatchSize, 0..MaxTexts)

\* clear_cache()
ClearCache ==
    /\ embed_result.op = "none"
    /\ cache' = [k \in CacheKeys |-> Absent]
    /\ unlinked' = {k \in CacheKeys : cache[k] # Absent}
    /\ saved' = [k \in CacheKeys |-> None]
    /\ provider_calls' = <<>>
    /\ embed_result' = [op |-> "clear_cache", status |-> "returned", key |-> <<>>,
                        texts |-> <<>>, value |-> <<>>, error |-> ""]
    /\ UNCHANGED <<chunkerVars, chatVars, storeVars, processVars, sharedVars,
                   contextVars, selectorVars, monitorVars>>

(***************************************************************************)
(* ChromaVectorStore (vector_store.py)                                     *)
(*                                                                         *)
(* The database is the collaborator behind self.client and                 *)
(* self.collection.  collection.add either commits the records of the      *)
(* call or raises and commits none of them; a record whose id the          *)
(* collection already holds is ignored.  Every operation on a collection   *)
(* that has been deleted raises.                                           *)
(***************************************************************************)
\* config.COLLECTION_NAME
COLLECTION_NAME == "pdf_documents"

\* bound on the number of chunks handed to one add_documents call
MaxDocuments == 2

\* bound on the batch_size argument of add_documents
MaxStoreBatch == 2

\* bound on the number of ids generated in a run
MaxIssued == 3

\* bound on now_seconds
MaxSecond == 1

\* the values uuid.uuid4().hex[:8] takes in the model
HexValues == {"1f0c9a3e", "b7d2e845"}

\* the chunks of a processed file: source and chunk_id of each chunk's metadata
ChunksOf(src, n) == [i \in 1..n |-> [source |-> src, chunk_id |-> i - 1]]

\* the lists add_documents is called with
DocumentLists ==
    {<<>>} \cup {ChunksOf(src, n) : src \in SourceNames, n \in 1..MaxDocuments}

\* the ids of the records of a collection
IdsOf(coll) == {r.id : r \in coll}

\* collection.add(documents, metadatas, ids) when it succeeds: the ids of a
\* call differ from each other
DbAdd(coll, records) ==
    coll \cup {records[i] : i \in {j \in 1..Len(records) : records[j].id \notin IdsOf(coll)}}

\* f"{timestamp}_{uuid.uuid4().hex[:8]}_{batch_offset + i}"
MakeId(timestamp, hex, n) == <<timestamp, "_", hex, "_", n>>

AddDocumentBatch_CommitsFailedBatch(st, batch_documents, batch_offset, timestamp, hexes, fails) ==
    LET ids == [i \in 1..Len(batch_documents) |->
                   MakeId(timestamp, hexes[batch_offset + i], batch_offset + i - 1)]
        records == [i \in 1..Len(batch_documents) |->
                       [id       |-> ids[i],
                        source   |-> batch_documents[i].source,
                        chunk_id |-> batch_documents[i].chunk_id]]
    IN  [st EXCEPT !.coll = IF st.exists THEN DbAdd(@, records) ELSE @,
                   !.status = IF fails \/ ~st.exists THEN "raised" ELSE "returned",
                   !.error = IF fails \/ ~st.exists
                             THEN "Error adding document batch to vector store" ELSE "",
                   !.issued = @ \o ids, !.now = timestamp,
                   !.batch_ids = IF fails \/ ~st.exists THEN <<>> ELSE ids]

\* _add_document_batch(batch_documents, batch_offset): datetime.now() gives
\* timestamp, the i-th uuid4 of the call gives hexes[i], and collection.add
\* raises when fails
AddDocumentBatch(st, batch_documents, batch_offset, timestamp, hexes, fails) ==
    LET ids == [i \in 1..Len(batch_documents) |->
                   MakeId(timestamp, hexes[batch_offset + i], batch_offset + i - 1)]
        records == [i \in 1..Len(batch_documents) |->
                       [id       |-> ids[i],
                        source   |-> batch_documents[i].source,
                        chunk_id |-> batch_documents[i].chunk_id]]
    IN  IF fails \/ ~st.exists
        THEN [st EXCEPT !.status = "raised",
                        !.error = "Error adding document batch to vector store",
                        !.issued = @ \o ids, !.now = timestamp, !.batch_ids = <<>>]
        ELSE [st EXCEPT !.coll = DbAdd(@, records),
                        !.issued = @ \o ids, !.now = timestamp, !.batch_ids = ids]

RECURSIVE AddBatches(_, _, _, _, _, _, _)
\* add_documents, lines 54-59: the loop over the batches; batch number
\* fail_batch (from 1) fails, and batch number b reads the clock at times[b]
AddBatches(st, documents, i, batch_size, times, hexes, fail_batch) ==
    IF i >= Len(documents) THEN st
    ELSE LET b     == (i \div batch_size) + 1
             batch == PySlice(documents, i, i + batch_size)
             done  == AddDocumentBatch(st, batch, i, times[b], hexes, b = fail_batch)
         IN  IF done.status = "raised"
             THEN [done EXCEPT !.all_ids = <<>>, !.failed_batch = b]
             ELSE AddBatches([done EXCEPT !.all_ids = @ \o done.batch_ids],
                             documents, i + batch_size, batch_size, times, hexes,
                             fail_batch)

\* add_documents(documents, batch_size)
AddDocumentsResult(coll, exists, documents, batch_size, times, hexes, fail_batch) ==
    LET st0 == [coll |-> coll, exists |-> exists, status |-> "returned",
                error |-> "", all_ids |-> <<>>, batch_ids |-> <<>>,
                issued |-> <<>>, now |-> now_seconds, failed_batch |-> 0]
    IN  \* `if not documents: return []`
        IF documents = <<>> THEN st0
        ELSE AddBatches(st0, documents, 0, batch_size, times, hexes, fail_batch)

\* the sources counted by get_collection_info, lines 110-115
UniqueSources(coll) == {r.source : r \in coll}

GetCollectionInfo_CountsChunks(coll) ==
    [document_count |-> Cardinality(coll), file_count |-> Cardinality(coll)]

\* get_collection_info() on an existing collection
GetCollectionInfo(coll) ==
    LET total_chunks == Cardinality(coll)
        unique_files == IF total_chunks = 0 THEN 0
                        ELSE Cardinality(UniqueSources(coll))
    IN  [document_count |-> total_chunks,
         file_count     |-> IF unique_files = 0 /\ total_chunks > 0
                            THEN total_chunks ELSE unique_files]

\* the orders in which collection.query can return n_results records
QueryResults(coll, n_results) ==
    LET n == Min(n_results, Cardinality(coll))
    IN  {docs \in [1..n -> coll] : \A i, j \in 1..n : i # j => docs[i] # docs[j]}

\* the providers a store is made for in the model
ProviderNames == {"chromadb_default", "ollama"}

\* get_or_create_collection(name=config.COLLECTION_NAME, ...): what a new
\* collection is created with; only a custom provider passes an
\* embedding_function
CreatedCollection(provider_name) ==
    [name               |-> COLLECTION_NAME,
     space              |-> "cosine",
     embedding_provider |-> provider_name,
     embedding_function |-> IF provider_name = "chromadb_default" THEN "default"
                            ELSE "CustomEmbeddingFunction"]

\* no collection
NoCollection ==
    [name |-> "", space |-> "", embedding_provider |-> "", embedding_function |-> ""]

NoStoreResult ==
    [op |-> "none", status |-> "returned", error |-> "", ids |-> <<>>,
     docs |-> <<>>, info |-> [document_count |-> 0, file_count |-> 0],
     documents |-> <<>>, batch_size |-> 0, failed_batch |-> 0, k |-> 0,
     issued |-> <<>>, after |-> "none"]

\* the result of the call op, made after the call whose result was last taken
ResultOf(op) == [NoStoreResult EXCEPT !.op = op, !.after = store_result.after]

\* create_vector_store() over the persist directory of earlier runs: the
\* collection is got or created; what it holds was added at an earlier time
InitStore ==
    /\ collection \in {{},
                       {[id |-> MakeId(-1, "b7d2e845", i), source |-> "notes.txt",
                         chunk_id |-> i] : i \in 0..1}}
    /\ collection_exists = TRUE
    /\ embedding_provider_name \in ProviderNames
    /\ collection_metadata = CreatedCollection(embedding_provider_name)
    /\ now_seconds \in 0..MaxSecond
    /\ store_result = NoStoreResult
    /\ issued_ids = {}
    /\ issued_count = 0

\* create_vector_store() that is not used
InitStoreIdle ==
    /\ collection = {}
    /\ collection_exists = TRUE
    /\ embedding_provider_name = "chromadb_default"
    /\ collection_metadata = CreatedCollection(embedding_provider_name)
    /\ now_seconds = 0
    /\ store_result = NoStoreResult
    /\ issued_ids = {}
    /\ issued_count = 0

StoreReady == store_result.op = "none"

\* a call of add_documents(documents, batch_size) in which the batch
\* numbered fail_batch, if any, fails and uuid4 draws from Hexes; with
\* repeats, a draw may make an id generated earlier in the run
AddDocumentsOver(Lists, BatchSizes, FailBatches, Hexes, repeats) ==
    /\ StoreReady
    /\ \E documents \in {d \in Lists : issued_count + Len(d) <= MaxIssued},
          batch_size \in BatchSizes :
       \E times \in [1..MaxDocuments -> now_seconds..MaxSecond],
          hexes \in [1..Len(documents) -> Hexes],
          fail_batch \in FailBatches :
          LET r == AddDocumentsResult(collection, collection_exists, documents,
                                      batch_size, times, hexes, fail_batch)
              batches == CeilDiv(Len(documents), batch_size)
          IN  /\ (repeats \/ Range(r.issued) \cap issued_ids = {})
              /\ \A b \in 1..MaxDocuments :
                    /\ (b > 1 => times[b - 1] <= times[b])
                    /\ (b > batches => times[b] = times[Max(batches, 1)])
              /\ (documents = <<>> => times[1] = now_seconds)
              /\ fail_batch <= batches
              /\ collection' = r.coll
              /\ now_seconds' = r.now
              /\ issued_ids' = issued_ids \cup Range(r.issued)
              /\ issued_count' = issued_count + Len(r.issued)
              /\ store_result' = [ResultOf("add_documents") EXCEPT
                                     !.status = r.status, !.issued = r.issued,
                                     !.error = r.error, !.ids = r.all_ids,
                                     !.documents = documents,
                                     !.batch_size = batch_size,
                                     !.failed_batch = r.failed_batch]
    /\ UNCHANGED <<collection_exists, collection_metadata, embedding_provider_name>>
    /\ UNCHANGED <<chunkerVars, chatVars, embedVars, processVars, sharedVars,
                   contextVars, selectorVars, monitorVars>>

\* add_documents calls whose ids are new
AddDocuments ==
    AddDocumentsOver(DocumentLists, 1..MaxStoreBatch, 0..MaxDocuments,
                     {"1f0c9a3e"}, FALSE)

\* a call of similarity_search(query_text, k)
SimilaritySearch ==
    /\ StoreReady
    /\ \E k \in {1, 2} :
          IF collection_exists
          THEN \E docs \in QueryResults(collection, k) :
                  store_result' = [ResultOf("similarity_search") EXCEPT
                                      !.docs = docs, !.k = k]
          ELSE store_result' = [ResultOf("similarity_search") EXCEPT
                                   !.status = "raised",
                                   !.error = "Error searching vector store", !.k = k]
    /\ UNCHANGED <<collection, collection_exists, collection_metadata,
                   embedding_provider_name, now_seconds, issued_ids, issued_count>>
    /\ UNCHANGED <<chunkerVars, chatVars, embedVars, processVars, sharedVars,
                   contextVars, selectorVars, monitorVars>>

\* a call of get_collection_info()
GetCollectionInfoCall ==
    /\ StoreReady
    /\ store_result' =
          IF collection_exists
          THEN [ResultOf("get_collection_info") EXCEPT
                   !.info = GetCollectionInfo(collection)]
          \* self.collection.count() raises, outside the try
          ELSE [ResultOf("get_collection_info") EXCEPT
                   !.status = "raised", !.error = "collection does not exist"]
    /\ UNCHANGED <<collection, collection_exists, collection_metadata,
                   embedding_provider_name, now_seconds, issued_ids, issued_count>>
    /\ UNCHANGED <<chunkerVars, chatVars, embedVars, processVars, sharedVars,
                   contextVars, selectorVars, monitorVars>>

ResetCollection_KeepsRecords ==
    /\ StoreReady
    /\ collection' = collection
    /\ collection_exists' = TRUE
    /\ collection_metadata' = CreatedCollection(embedding_provider_name)
    /\ store_result' = ResultOf("reset_collection")
    /\ UNCHANGED <<embedding_provider_name, now_seconds, issued_ids, issued_count>>
    /\ UNCHANGED <<chunkerVars, chatVars, embedVars, processVars, sharedVars,
                   contextVars, selectorVars, monitorVars>>

\* a call of reset_collection(): delete_collection, whose error for a missing
\* collection is passed over, then get_or_create_collection
ResetCollection ==
    /\ StoreReady
    /\ collection' = {}
    /\ collection_exists' = TRUE
    /\ collection_metadata' = CreatedCollection(embedding_provider_name)
    /\ store_result' = ResultOf("reset_collection")
    /\ UNCHANGED <<embedding_provider_name, now_seconds, issued_ids, issued_count>>
    /\ UNCHANGED <<chunkerVars, chatVars, embedVars, processVars, sharedVars,
                   contextVars, selectorVars, monitorVars>>

\* the collection is deleted through another client of the database
CollectionDeleted ==
    /\ store_result.op = "none"
    /\ collection_exists
    /\ collection_exists' = FALSE
    /\ collection' = {}
    /\ collection_metadata' = NoCollection
    /\ store_result' = [store_result EXCEPT !.after = "collection deleted"]
    /\ UNCHANGED <<embedding_provider_name, now_seconds, issued_ids, issued_count>>
    /\ UNCHANGED <<chunkerVars, chatVars, embedVars, processVars, sharedVars,
                   contextVars, selectorVars, monitorVars>>

\* the caller takes what the call returned or raised; time may pass
StoreResultTaken ==
    /\ store_result.op # "none"
    /\ store_result' = [NoStoreResult EXCEPT !.after = store_result.op]
    /\ now_seconds' \in now_seconds..MaxSecond
    /\ UNCHANGED <<collection, collection_exists, collection_metadata,
                   embedding_provider_name, issued_ids, issued_count>>
    /\ UNCHANGED <<chunkerVars, chatVars, embedVars, processVars, sharedVars,
                   contextVars, selectorVars, monitorVars>>

(***************************************************************************)
(* PDFProcessor and TXTProcessor (pdf_processor.py)                        *)
(*                                                                         *)
(* A text is a sequence of code points, a text file a sequence of bytes    *)
(* and a PDF the sequence of the texts page.extract_text() gives for its   *)
(* pages.                                                                  *)
(***************************************************************************)
\* bound on the bytes of a text file
MaxFileBytes == 3

\* bound on the pages of a PDF
MaxPages == 2

\* the bytes of the model's text files: "a", " ", "\n", 0xA0, 0xC3, 0xA9
FileBytes == {97, 32, 10, 160, 195, 169}

\* the page texts of the model's PDFs: "", " \n", "a"
PageTexts == {<<>>, <<32, 10>>, <<97>>}

\* str.isspace() on the code points below 256
PySpace == (9..13) \cup (28..32) \cup {133, 160}

\* not text.strip()
IsBlank(t) == \A i \in 1..Len(t) : t[i] \in PySpace

RECURSIVE Utf8Decode(_)
\* open(file_path, 'r', encoding='utf-8').read(): the code points of the
\* one- and two-byte forms (the bytes of the model form no longer ones), or
\* UnicodeDecodeError
Utf8Decode(b) ==
    IF b = <<>> THEN [ok |-> TRUE, text |-> <<>>]
    ELSE IF b[1] < 128
         THEN [ok   |-> Utf8Decode(Tail(b)).ok,
               text |-> <<b[1]>> \o Utf8Decode(Tail(b)).text]
    ELSE IF b[1] \in 194..223 /\ Len(b) >= 2 /\ b[2] \in 128..191
         THEN [ok   |-> Utf8Decode(SubSeq(b, 3, Len(b))).ok,
               text |-> <<(b[1] - 192) * 64 + (b[2] - 128)>>
                           \o Utf8Decode(SubSeq(b, 3, Len(b))).text]
    ELSE [ok |-> FALSE, text |-> <<>>]

\* open(file_path, 'r', encoding='latin-1').read(): every byte is the code
\* point of its value, no byte is rejected
Latin1Decode(b) == [i \in 1..Len(b) |-> b[i]]

RECURSIVE JoinNewline(_)
\* "\n".join(all_text)
JoinNewline(texts) ==
    IF texts = <<>> THEN <<>>
    ELSE IF Len(texts) = 1 THEN texts[1]
    ELSE texts[1] \o <<10>> \o JoinNewline(Tail(texts))

RECURSIVE CreateChunksFrom(_, _, _, _, _, _)
\* the while loop of create_chunks from start = st, chunk_id = id
CreateChunksFrom(txt, src, size, overlap, st, id) ==
    IF ~LoopCondition(st, txt) THEN <<>>
    ELSE <<MakeChunk(txt, src, id, st, size)>>
            \o CreateChunksFrom(txt, src, size, overlap, st + Stride(size, overlap), id + 1)

\* create_chunks(text, source_name), when it returns
CreateChunks(txt, src, size, overlap) == CreateChunksFrom(txt, src, size, overlap, 0, 0)

\* whether create_chunks(text, source_name) returns: with a stride that is
\* not positive the loop over a non-empty text never ends
CreateChunksReturns(txt, size, overlap) == txt = <<>> \/ Stride(size, overlap) > 0

\* chunk["metadata"][...] = ... for every chunk
WithMetadata(chks, extra) ==
    [i \in 1..Len(chks) |-> [chks[i] EXCEPT !.metadata = extra @@ @]]

NoProcessResult ==
    [op |-> "none", status |-> "returned", error |-> "", encoding |-> "",
     extracted |-> <<>>, documents |-> <<>>]

\* process_pdf(file_path) of a file named name with the page texts pages
ProcessPdf(pages, name, size, overlap) ==
    LET all_text  == SelectSeq(pages, LAMBDA t : ~IsBlank(t))
        full_text == JoinNewline(all_text)
    IN  IF all_text = <<>>
        THEN [op |-> "process_pdf", status |-> "raised",
              error |-> "Error processing PDF: No text content found in PDF",
              encoding |-> "", extracted |-> pages, documents |-> <<>>]
        ELSE [op |-> "process_pdf", status |-> "returned", error |-> "",
              encoding |-> "", extracted |-> pages,
              documents |-> WithMetadata(CreateChunks(full_text, name, size, overlap),
                                         [total_pages |-> Len(pages)])]

\* process_txt(file_path) of a file named name that holds the bytes b
ProcessTxt(b, name, size, overlap) ==
    IF Utf8Decode(b).ok
    THEN LET full_text == Utf8Decode(b).text
         IN  IF IsBlank(full_text)
             THEN [op |-> "process_txt", status |-> "raised",
                   error |-> "Error processing TXT: No text content found in TXT file",
                   encoding |-> "utf-8", extracted |-> <<full_text>>,
                   documents |-> <<>>]
             ELSE [op |-> "process_txt", status |-> "returned", error |-> "",
                   encoding |-> "utf-8", extracted |-> <<full_text>>,
                   documents |-> WithMetadata(CreateChunks(full_text, name, size, overlap),
                                              [total_chars |-> Len(full_text),
                                               encoding    |-> "utf-8"])]
    \* except UnicodeDecodeError: lines 105-114
    ELSE LET full_text == Latin1Decode(b)
         IN  [op |-> "process_txt", status |-> "returned", error |-> "",
              encoding |-> "latin-1", extracted |-> <<full_text>>,
              documents |-> WithMetadata(CreateChunks(full_text, name, size, overlap),
                                         [total_chars |-> Len(full_text),
                                          encoding    |-> "latin-1"])]

\* no call of a processor made
InitProcess == process_result = NoProcessResult

\* a call of process_pdf(file_path) that ends
ProcessPdfCall ==
    /\ process_result.op = "none"
    /\ \E pages \in SeqsUpTo(PageTexts, MaxPages) :
          /\ CreateChunksReturns(JoinNewline(pages), chunk_size, chunk_overlap)
          /\ process_result' = ProcessPdf(pages, "Report.PDF", chunk_size, chunk_overlap)
    /\ UNCHANGED <<chunkerVars, chatVars, embedVars, storeVars, sharedVars,
                   contextVars, selectorVars, monitorVars>>

\* a call of process_txt(file_path) that ends
ProcessTxtCall ==
    /\ process_result.op = "none"
    /\ \E b \in SeqsUpTo(FileBytes, MaxFileBytes) :
          /\ CreateChunksReturns(b, chunk_size, chunk_overlap)
          /\ process_result' = ProcessTxt(b, "notes.txt", chunk_size, chunk_overlap)
    /\ UNCHANGED <<chunkerVars, chatVars, embedVars, storeVars, sharedVars,
                   contextVars, selectorVars, monitorVars>>

\* the caller takes the result
ProcessResultTaken ==
    /\ process_result.op # "none"
    /\ process_result' = NoProcessResult
    /\ UNCHANGED <<chunkerVars, chatVars, embedVars, storeVars, sharedVars,
                   contextVars, selectorVars, monitorVars>>

(***************************************************************************)
(* One cache entry used by several processes (embeddings.py)               *)
(*                                                                         *)
(* Three processes share cache_dir: one is inside _save_to_cache, one      *)
(* inside _load_from_cache of the same key, one inside clear_cache.  Their *)
(* file-system calls interleave in any order.  The directory entry of      *)
(* cache_path names a file or nothing; a file that is unlinked while a     *)
(* process holds it open stays readable and writable for that process.     *)
(* json.dump reaches the file in pieces, as the buffer is flushed; one     *)
(* read() takes the whole content the file has at that moment.  On "nt" a  *)
(* file that another process holds open cannot be unlinked.                *)
(***************************************************************************)
\* the vector the entry holds when it was saved by an earlier call
OldEmbedding == <<5, 0>>

\* the vector _save_to_cache is called with
NewEmbedding == <<-12, 5>>

\* disk.entry when cache_path does not exist
NoFile == 0

IdleSaver == [pc |-> "idle", file |-> NoFile]

IdleLoader == [pc |-> "idle", file |-> NoFile, status |-> "", value |-> None, error |-> ""]

IdleClearer == [pc |-> "idle", status |-> "", error |-> ""]

\* the processes that hold the file f open, other than the one asking
HeldOpenBySaver(f) == saver.pc = "writing" /\ saver.file = f

HeldOpenByLoader(f) == loader.pc = "open" /\ loader.file = f

\* the cache directory before the calls: no entry, or a complete one
InitShared ==
    /\ os_name \in {"posix", "nt"}
    /\ disk \in {[entry |-> NoFile, files |-> <<>>],
                 [entry |-> 1, files |-> <<JsonDumps(OldEmbedding)>>]}
    /\ saver = IdleSaver
    /\ loader = IdleLoader
    /\ clearer = IdleClearer

\* a run in which the entry is used by one process at a time
InitSharedIdle ==
    /\ os_name = "posix"
    /\ disk = [entry |-> NoFile, files |-> <<>>]
    /\ saver = IdleSaver
    /\ loader = IdleLoader
    /\ clearer = IdleClearer

\* _save_to_cache, line 47: open(cache_path, 'w') truncates the file, or
\* creates it
SaveOpen ==
    /\ saver.pc = "idle"
    /\ IF disk.entry # NoFile
       THEN /\ disk' = [disk EXCEPT !.files[disk.entry] = <<>>]
            /\ saver' = [pc |-> "writing", file |-> disk.entry]
       ELSE /\ disk' = [entry |-> Len(disk.files) + 1, files |-> Append(disk.files, <<>>)]
            /\ saver' = [pc |-> "writing", file |-> Len(disk.files) + 1]
    /\ UNCHANGED <<os_name, loader, clearer>>
    /\ UNCHANGED <<chunkerVars, chatVars, embedVars, storeVars, processVars,
                   contextVars, selectorVars, monitorVars>>

\* _save_to_cache, line 48: json.dump(embedding, f), a flush of the buffer:
\* the file now holds a longer prefix of the text
SaveFlush ==
    /\ saver.pc = "writing"
    /\ \E n \in (Len(disk.files[saver.file]) + 1)..Len(JsonDumps(NewEmbedding)) :
          disk' = [disk EXCEPT !.files[saver.file] = SubSeq(JsonDumps(NewEmbedding), 1, n)]
    /\ UNCHANGED <<os_name, saver, loader, clearer>>
    /\ UNCHANGED <<chunkerVars, chatVars, embedVars, storeVars, processVars,
                   contextVars, selectorVars, monitorVars>>

\* _save_to_cache, end of the with block: the rest is flushed, the file closed
SaveClose ==
    /\ saver.pc = "writing"
    /\ disk' = [disk EXCEPT !.files[saver.file] = JsonDumps(NewEmbedding)]
    /\ saver' = [pc |-> "done", file |-> NoFile]
    /\ UNCHANGED <<os_name, loader, clearer>>
    /\ UNCHANGED <<chunkerVars, chatVars, embedVars, storeVars, processVars,
                   contextVars, selectorVars, monitorVars>>

\* _load_from_cache, line 31: cache_path.exists(); line 38 when it does not
LoadExists ==
    /\ loader.pc = "idle"
    /\ loader' = IF disk.entry # NoFile
                 THEN [loader EXCEPT !.pc = "exists"]
                 ELSE [loader EXCEPT !.pc = "done", !.status = "returned", !.value = None]
    /\ UNCHANGED <<os_name, disk, saver, clearer>>
    /\ UNCHANGED <<chunkerVars, chatVars, embedVars, storeVars, processVars,
                   contextVars, selectorVars, monitorVars>>

\* _load_from_cache, line 33: open(cache_path, 'r'); FileNotFoundError goes
\* to the except block
LoadOpen ==
    /\ loader.pc = "exists"
    /\ loader' = IF disk.entry # NoFile
                 THEN [loader EXCEPT !.pc = "open", !.file = disk.entry]
                 ELSE [loader EXCEPT !.pc = "except"]
    /\ UNCHANGED <<os_name, disk, saver, clearer>>
    /\ UNCHANGED <<chunkerVars, chatVars, embedVars, storeVars, processVars,
                   contextVars, selectorVars, monitorVars>>

\* _load_from_cache, line 34: json.load(f) returns the value, or raises and
\* the with block closes the file
LoadRead ==
    /\ loader.pc = "open"
    /\ \E loaded \in {JsonLoads(disk.files[loader.file])} :
          loader' = IF loaded.ok
                    THEN [loader EXCEPT !.pc = "done", !.file = NoFile,
                                        !.status = "returned", !.value = loaded.value]
                    ELSE [loader EXCEPT !.pc = "except", !.file = NoFile]
    /\ UNCHANGED <<os_name, disk, saver, clearer>>
    /\ UNCHANGED <<chunkerVars, chatVars, embedVars, storeVars, processVars,
                   contextVars, selectorVars, monitorVars>>

\* _load_from_cache, lines 35-38: cache_path.unlink(missing_ok=True), then
\* return None; an error of unlink other than FileNotFoundError leaves the
\* function
LoadUnlink ==
    /\ loader.pc = "except"
    /\ IF disk.entry = NoFile
       THEN /\ loader' = [loader EXCEPT !.pc = "done", !.status = "returned", !.value = None]
            /\ UNCHANGED disk
       ELSE IF os_name = "nt" /\ HeldOpenBySaver(disk.entry)
       THEN /\ loader' = [loader EXCEPT !.pc = "done", !.status = "raised",
                                        !.error = "PermissionError"]
            /\ UNCHANGED disk
       ELSE /\ loader' = [loader EXCEPT !.pc = "done", !.status = "returned", !.value = None]
            /\ disk' = [disk EXCEPT !.entry = NoFile]
    /\ UNCHANGED <<os_name, saver, clearer>>
    /\ UNCHANGED <<chunkerVars, chatVars, embedVars, storeVars, processVars,
                   contextVars, selectorVars, monitorVars>>

\* clear_cache, lines 122-123: the glob lists the entry, or nothing
ClearGlob ==
    /\ clearer.pc = "idle"
    /\ clearer' = IF disk.entry # NoFile
                  THEN [clearer EXCEPT !.pc = "listed"]
                  ELSE [clearer EXCEPT !.pc = "done", !.status = "returned"]
    /\ UNCHANGED <<os_name, disk, saver, loader>>
    /\ UNCHANGED <<chunkerVars, chatVars, embedVars, storeVars, processVars,
                   contextVars, selectorVars, monitorVars>>

\* clear_cache, line 124: cache_file.unlink()
ClearUnlink ==
    /\ clearer.pc = "listed"
    /\ IF disk.entry = NoFile
       THEN /\ clearer' = [clearer EXCEPT !.pc = "done", !.status = "raised",
                                          !.error = "FileNotFoundError"]
            /\ UNCHANGED disk
       ELSE IF os_name = "nt" /\ (HeldOpenBySaver(disk.entry) \/ HeldOpenByLoader(disk.entry))
       THEN /\ clearer' = [clearer EXCEPT !.pc = "done", !.status = "raised",
                                          !.error = "PermissionError"]
            /\ UNCHANGED disk
       ELSE /\ clearer' = [clearer EXCEPT !.pc = "done", !.status = "returned"]
            /\ disk' = [disk EXCEPT !.entry = NoFile]
    /\ UNCHANGED <<os_name, saver, loader>>
    /\ UNCHANGED <<chunkerVars, chatVars, embedVars, storeVars, processVars,
                   contextVars, selectorVars, monitorVars>>

(***************************************************************************)
(* RAGChatbot._optimize_context_length (retrieval_qa.py)                   *)
(***************************************************************************)
\* bound on the lines of a context
MaxContextLines == 3

\* the lengths of the lines of the model's contexts
LineLengths == {0, 3, 20, 38}

\* the values of self.max_context_length the function is run with: scaled
\* down from 8000, and no shorter than the truncation marker
ContextLimits == {40, 45}

\* a line of n characters
LineOf(n) == [i \in 1..n |-> "a"]

RECURSIVE JoinLines(_)
\* '\n'.join(lines)
JoinLines(lines) ==
    IF lines = <<>> THEN <<>>
    ELSE IF Len(lines) = 1 THEN lines[1]
    ELSE lines[1] \o <<"\n">> \o JoinLines(Tail(lines))

\* context.split('\n'): the texts between the newlines, empty ones included
SplitLines(txt) ==
    LET breaks == {i \in 1..Len(txt) : txt[i] = "\n"}
        \* the k-th break, the start of the text for k = 0, its end after the last
        BreakAt(k) ==
            IF k = 0 THEN 0
            ELSE IF k > Cardinality(breaks) THEN Len(txt) + 1
            ELSE CHOOSE i \in breaks : Cardinality({j \in breaks : j < i}) = k - 1
    IN  [k \in 1..(Cardinality(breaks) + 1) |->
            SubSeq(txt, BreakAt(k - 1) + 1, BreakAt(k) - 1)]

\* "\n[...context truncated for length...]"
TruncationMarker ==
    <<"\n", "[", ".", ".", ".", "c", "o", "n", "t", "e",
      "x", "t", " ", "t", "r", "u", "n", "c", "a", "t",
      "e", "d", " ", "f", "o", "r", " ", "l", "e", "n",
      "g", "t", "h", ".", ".", ".", "]">>

RECURSIVE KeepLines(_, _, _, _, _)
\* the loop of lines 309-313 from line i on: optimized_lines
KeepLines(lines, i, current_length, limit, optimized_lines) ==
    IF i > Len(lines) THEN optimized_lines
    ELSE IF current_length + Len(lines[i]) > limit THEN optimized_lines
    ELSE KeepLines(lines, i + 1, current_length + Len(lines[i]) + 1, limit,
                   Append(optimized_lines, lines[i]))

\* _optimize_context_length(context) with self.max_context_length = limit
OptimizeContextLength(context, limit) ==
    IF Len(context) <= limit THEN context
    ELSE JoinLines(KeepLines(SplitLines(context), 1, 0, limit, <<>>)) \o TruncationMarker

\* the contexts of the model
Contexts == {JoinLines(ls) : ls \in SeqsUpTo({LineOf(n) : n \in LineLengths}, MaxContextLines)}

NoContextResult == [op |-> "none", context |-> <<>>, limit |-> 0, value |-> <<>>]

\* no call made
InitContext == context_result = NoContextResult

\* a call of _optimize_context_length(context)
OptimizeContextCall ==
    /\ context_result.op = "none"
    /\ \E context \in Contexts, limit \in ContextLimits :
          context_result' = [op |-> "_optimize_context_length", context |-> context,
                             limit |-> limit,
                             value |-> OptimizeContextLength(context, limit)]
    /\ UNCHANGED <<chunkerVars, chatVars, embedVars, storeVars, processVars, sharedVars,
                   selectorVars, monitorVars>>

\* the caller takes the result
ContextResultTaken ==
    /\ context_result.op # "none"
    /\ context_result' = NoContextResult
    /\ UNCHANGED <<chunkerVars, chatVars, embedVars, storeVars, processVars, sharedVars,
                   selectorVars, monitorVars>>

(***************************************************************************)
(* embedding_provider_selection (app.py, embedding_providers.py)           *)
(***************************************************************************)
\* list_available_providers()
Providers == {"ollama", "openai", "huggingface", "chromadb_default"}

\* what the environment of a provider can be: "ok", its constructor raises
\* (no API key, library not installed), or its embed_text raises (service
\* down, request error).  OllamaEmbeddingProvider() never raises.
StatusesOf(provider) ==
    IF provider = "ollama" THEN {"ok", "embed_fails"}
    ELSE {"ok", "init_fails", "embed_fails"}

ExternalProviders == Providers \ {"chromadb_default"}

ProviderStatuses ==
    {st \in [ExternalProviders -> {"ok", "init_fails", "embed_fails"}] :
        \A q \in ExternalProviders : st[q] \in StatusesOf(q)}

\* get_embedding_provider(provider_name) raises
GetEmbeddingProviderRaises(provider_name, status) ==
    /\ provider_name # "chromadb_default"
    /\ status[provider_name] = "init_fails"

\* whether provider.embed_text("test") raises:
\* ChromaDBDefaultEmbeddingProvider.embed_text raises NotImplementedError
EmbedTestRaises(provider_name, status) ==
    \/ provider_name = "chromadb_default"
    \/ status[provider_name] = "embed_fails"

\* BaseEmbeddingProvider.test_connection() of the provider of that name
TestConnection(provider_name, status) == ~EmbedTestRaises(provider_name, status)

\* test_provider(provider_name)
TestProvider(provider_name, status) ==
    IF GetEmbeddingProviderRaises(provider_name, status)
    THEN [provider |-> provider_name, available |-> FALSE,
          name |-> provider_name, error |-> "Failed to initialize"]
    ELSE [provider |-> provider_name,
          available |-> TestConnection(provider_name, status),
          name |-> provider_name, error |-> "None"]

NoSelection ==
    [chosen |-> "none", tested |-> FALSE, available |-> FALSE,
     returned |-> TRUE, embed_calls |-> <<>>, error |-> ""]

\* the session as initialize_session_state leaves it, every provider usable
InitSelector ==
    /\ selected_embedding_provider = "chromadb_default"
    /\ provider_status = [q \in ExternalProviders |-> "ok"]
    /\ selection_result = NoSelection

\* the same session in any environment
InitSelectorAny ==
    /\ selected_embedding_provider = "chromadb_default"
    /\ provider_status \in ProviderStatuses
    /\ selection_result = NoSelection

\* one run of embedding_provider_selection() with the select box on
\* selected_provider
SelectProvider ==
    \E selected_provider \in Providers :
        /\ IF selected_provider # selected_embedding_provider
           THEN \E test_result \in {TestProvider(selected_provider, provider_status)} :
                  /\ selected_embedding_provider' =
                        (IF test_result.available THEN selected_provider
                         ELSE selected_embedding_provider)
                  /\ selection_result' =
                        [chosen      |-> selected_provider,
                         tested      |-> TRUE,
                         available   |-> test_result.available,
                         returned    |-> test_result.available,
                         embed_calls |->
                            IF GetEmbeddingProviderRaises(selected_provider, provider_status)
                            THEN <<>> ELSE <<selected_provider>>,
                         error       |-> IF test_result.available THEN ""
                                         ELSE test_result.error]
           ELSE /\ selection_result' =
                      [chosen |-> selected_provider, tested |-> FALSE,
                       available |-> FALSE, returned |-> TRUE,
                       embed_calls |-> <<>>, error |-> ""]
                /\ UNCHANGED selected_embedding_provider
        /\ UNCHANGED provider_status
        /\ UNCHANGED <<chunkerVars, chatVars, embedVars, storeVars, processVars,
                       sharedVars, contextVars, monitorVars>>

\* between two runs a service goes down or comes up, a key or library is
\* added or removed
ProviderStatusChanges ==
    /\ \E q \in ExternalProviders : \E st \in StatusesOf(q) :
          /\ st # provider_status[q]
          /\ provider_status' = [provider_status EXCEPT ![q] = st]
    /\ UNCHANGED <<selected_embedding_provider, selection_result>>
    /\ UNCHANGED <<chunkerVars, chatVars, embedVars, storeVars, processVars,
                   sharedVars, contextVars, monitorVars>>

(***************************************************************************)
(* PerformanceMonitor (performance_monitor.py)                             *)
(***************************************************************************)
\* bound on the threads start_monitoring creates
MaxThreads == 3

\* bound on the samples appended to system_metrics
MaxSamples == 3

\* PerformanceMonitor.__init__
InitMonitor ==
    /\ monitoring = FALSE
    /\ monitor_thread = 0
    /\ threads = <<>>
    /\ system_metrics = <<>>

\* the threads that have not left _monitor_system
LiveThreads == {t \in 1..Len(threads) : threads[t].pc # "exited"}

\* start_monitoring(): returns at once when monitoring is set, otherwise
\* sets it and starts a new thread in _monitor_system
StartMonitoring ==
    /\ Len(threads) < MaxThreads
    /\ IF monitoring
       THEN UNCHANGED <<monitoring, monitor_thread, threads>>
       ELSE /\ monitoring' = TRUE
            /\ threads' = Append(threads, [pc |-> "test", stopped |-> FALSE])
            /\ monitor_thread' = Len(threads) + 1
    /\ UNCHANGED system_metrics
    /\ UNCHANGED <<chunkerVars, chatVars, embedVars, storeVars, processVars,
                   sharedVars, contextVars, selectorVars>>

\* stop_monitoring(): clears monitoring; join(timeout=1) returns when the
\* thread has ended or after one second, whichever is first, so the caller
\* goes on whether or not the thread has seen the flag.  The threads alive
\* at the call are marked as stopped.
StopMonitoring ==
    /\ monitoring' = FALSE
    /\ threads' = [t \in 1..Len(threads) |->
                     IF threads[t].pc # "exited"
                     THEN [threads[t] EXCEPT !.stopped = TRUE]
                     ELSE threads[t]]
    /\ UNCHANGED <<monitor_thread, system_metrics>>
    /\ UNCHANGED <<chunkerVars, chatVars, embedVars, storeVars, processVars,
                   sharedVars, contextVars, selectorVars>>

\* _monitor_system, lines 42-53: the test of `while self.monitoring`; when
\* set, a sample is appended and the thread goes to sleep, otherwise the
\* thread ends
MonitorSystemTest ==
    /\ \E t \in 1..Len(threads) :
          /\ threads[t].pc = "test"
          /\ IF monitoring
             THEN /\ Len(system_metrics) < MaxSamples
                  /\ system_metrics' =
                        Append(system_metrics,
                               [thread |-> t, stopped_before |-> threads[t].stopped])
                  /\ threads' = [threads EXCEPT ![t].pc = "sleeping"]
             ELSE /\ threads' = [threads EXCEPT ![t].pc = "exited"]
                  /\ UNCHANGED system_metrics
    /\ UNCHANGED <<monitoring, monitor_thread>>
    /\ UNCHANGED <<chunkerVars, chatVars, embedVars, storeVars, processVars,
                   sharedVars, contextVars, selectorVars>>

\* _monitor_system, line 55: time.sleep(interval) returns
MonitorSystemWakes ==
    /\ \E t \in 1..Len(threads) :
          /\ threads[t].pc = "sleeping"
          /\ threads' = [threads EXCEPT ![t].pc = "test"]
    /\ UNCHANGED <<monitoring, monitor_thread, system_metrics>>
    /\ UNCHANGED <<chunkerVars, chatVars, embedVars, storeVars, processVars,
                   sharedVars, contextVars, selectorVars>>

(***************************************************************************)
(* Specifications                                                          *)
(***************************************************************************)
\* TextProcessor() with the defaults of config.py, no call made
InitChunkerIdle ==
    /\ chunk_size = CHUNK_SIZE
    /\ chunk_overlap = CHUNK_OVERLAP
    /\ overlap_arg = NoArgument
    /\ text = <<>>
    /\ source_name = "notes.txt"
    /\ chunks = <<>>
    /\ start = 0
    /\ chunk_id = 0
    /\ pc_chunk = "idle"

InitChunker ==
    /\ ConstructTextProcessor
    /\ InitChatbot
    /\ InitEmbeddingIdle
    /\ InitStoreIdle
    /\ InitProcess
    /\ InitSharedIdle
    /\ InitContext
    /\ InitSelector
    /\ InitMonitor

NextChunker ==
    \/ CreateChunksCall
    \/ CreateChunksStep
    \/ CreateChunksReturn

SpecChunker == InitChunker /\ [][NextChunker]_vars

InitChat ==
    /\ InitChunkerIdle
    /\ InitChatbot
    /\ InitEmbeddingIdle
    /\ InitStoreIdle
    /\ InitProcess
    /\ InitSharedIdle
    /\ InitContext
    /\ InitSelector
    /\ InitMonitor

NextChat ==
    \/ ChatGreeting(Prompts)
    \/ ChatRetrievalFails(Prompts)
    \/ ChatMemoryContextRaises(Prompts, Retrievals)
    \/ ChatCompletes(Prompts, Retrievals, GenerationOutcomes,
                     RetrievalTimes, GenerationTimes, MaxChatTurns)
    \/ ClearMemory

SpecChat == InitChat /\ [][NextChat]_vars

\* the same chatbot over many turns, with fewer kinds of question, retrieval
\* and answer
NextMemory ==
    \/ ChatGreeting({P_hi_there})
    \/ ChatRetrievalFails({P_what_is_chunking})
    \/ ChatMemoryContextRaises({P_what_is_chunking}, {<<DocE>>})
    \/ ChatCompletes({P_what_is_chunking, P_hello_explain}, {<<DocE>>},
                     {"ok_short", "null_response"}, {1}, {2}, MaxMemoryTurns)
    \/ ClearMemory

SpecMemory == InitChat /\ [][NextMemory]_vars

\* the same chatbot over a few turns with short and long answers
NextHistory ==
    \/ ChatGreeting({P_hi_there})
    \/ ChatRetrievalFails({P_what_is_chunking})
    \/ ChatMemoryContextRaises({P_what_is_chunking}, {<<DocE>>})
    \/ ChatCompletes({P_what_is_chunking, P_hello_explain}, {<<>>, <<DocE>>},
                     {"ok_short", "ok_long", "null_response"}, {1}, {2},
                     MaxHistoryTurns)
    \/ ClearMemory

SpecHistory == InitChat /\ [][NextHistory]_vars

\* the caller takes what the call returned or raised; the manager is ready
\* for its next call
EmbedResultTaken ==
    /\ embed_result.op # "none"
    /\ embed_result' = [op |-> "none", status |-> "returned", key |-> <<>>,
                        texts |-> <<>>, value |-> <<>>, error |-> ""]
    /\ provider_calls' = <<>>
    /\ unlinked' = {}
    /\ UNCHANGED <<cache, saved>>
    /\ UNCHANGED <<chunkerVars, chatVars, storeVars, processVars, sharedVars,
                   contextVars, selectorVars, monitorVars>>

InitEmbed ==
    /\ InitChunkerIdle
    /\ InitChatbot
    /\ InitEmbedding
    /\ InitStoreIdle
    /\ InitProcess
    /\ InitSharedIdle
    /\ InitContext
    /\ InitSelector
    /\ InitMonitor

NextEmbed ==
    \/ LoadFromCacheCall
    \/ EmbedText
    \/ ClearCache
    \/ EmbedResultTaken

SpecEmbed == InitEmbed /\ [][NextEmbed]_vars

\* the cache operations called directly, and embed_text over a single string
NextCache ==
    \/ SaveToCacheCall
    \/ LoadFromCacheCall
    \/ ClearCache
    \/ EmbedTextOver({a \in TextArguments : a.is_str}, {1}, {0, 1})
    \/ EmbedResultTaken

SpecCache == InitEmbed /\ [][NextCache]_vars

InitStoreSpec ==
    /\ InitChunkerIdle
    /\ InitChatbot
    /\ InitEmbeddingIdle
    /\ InitStore
    /\ InitProcess
    /\ InitSharedIdle
    /\ InitContext
    /\ InitSelector
    /\ InitMonitor

NextStore ==
    \/ AddDocuments
    \/ SimilaritySearch
    \/ GetCollectionInfoCall
    \/ ResetCollection
    \/ CollectionDeleted
    \/ StoreResultTaken

SpecStore == InitStoreSpec /\ [][NextStore]_vars

\* add_documents over single files, no insertion failing, uuid4 drawing any
\* value
NextIds ==
    \/ AddDocumentsOver({ChunksOf("notes.txt", n) : n \in 1..MaxDocuments},
                        1..MaxStoreBatch, {0}, HexValues, TRUE)
    \/ ResetCollection
    \/ StoreResultTaken

SpecIds == InitStoreSpec /\ [][NextIds]_vars

\* the provider selector in any environment
InitSelectorSpec ==
    /\ InitChunkerIdle /\ InitChatbot /\ InitEmbeddingIdle /\ InitStoreIdle
    /\ InitProcess /\ InitSharedIdle
    /\ InitContext /\ InitSelectorAny /\ InitMonitor

NextSelector == SelectProvider \/ ProviderStatusChanges

SpecSelector == InitSelectorSpec /\ [][NextSelector]_vars

\* one PerformanceMonitor, its callers and its threads
NextMonitor ==
    \/ StartMonitoring
    \/ StopMonitoring
    \/ MonitorSystemTest
    \/ MonitorSystemWakes

SpecMonitor == InitChat /\ [][NextMonitor]_vars

\* a processor made with any of the chunk sizes and overlaps
InitProcessor ==
    /\ ConstructTextProcessor /\ InitChatbot /\ InitEmbeddingIdle /\ InitStoreIdle
    /\ InitProcess /\ InitSharedIdle
    /\ InitContext /\ InitSelector /\ InitMonitor

NextProcess == ProcessPdfCall \/ ProcessTxtCall \/ ProcessResultTaken

SpecProcess == InitProcessor /\ [][NextProcess]_vars

\* one save, one load of the same key and one clear_cache, interleaved
InitSharedSpec ==
    /\ InitChunkerIdle /\ InitChatbot /\ InitEmbeddingIdle /\ InitStoreIdle
    /\ InitProcess /\ InitShared
    /\ InitContext /\ InitSelector /\ InitMonitor

NextShared ==
    \/ SaveOpen
    \/ SaveFlush
    \/ SaveClose
    \/ LoadExists
    \/ LoadOpen
    \/ LoadRead
    \/ LoadUnlink
    \/ ClearGlob
    \/ ClearUnlink

SpecShared == InitSharedSpec /\ [][NextShared]_vars

NextContext == OptimizeContextCall \/ ContextResultTaken

SpecContext == InitChat /\ [][NextContext]_vars

(***************************************************************************)
(* Claims about RAGChatbot (checked under SpecChat and SpecMemory)         *)
(***************************************************************************)
\* C5: in every non-greeting chat turn the context string passed to the
\* generation call (retrieved-chunk context plus prepended conversation
\* history) is at most max_context_length characters long.
C5_ContextWithinBudget ==
    \A i \in 1..Len(gen_calls) : gen_calls[i].context.len <= max_context_length

\* C6: the conversation memory holds at most max_memory_items exchanges, and
\* they are exactly the most recent min(n, max_memory_items) of the n
\* exchanges appended since the last clear, in insertion order; after
\* clear_memory (no exchange appended since) it is empty.
C6_MemoryIsBoundedFifo ==
    /\ Len(memory) <= max_memory_items
    /\ Len(memory) = Min(Len(appended), max_memory_items)
    /\ \A i \in 1..Len(memory) :
          memory[i] = appended[Len(appended) - Len(memory) + i]
    /\ (appended = <<>> => memory = <<>>)

\* more exchanges were appended than the memory holds: the oldest is evicted
C6_Witness ==
    /\ Len(appended) > max_memory_items
    /\ Len(memory) = max_memory_items
    /\ memory[1] = appended[Len(appended) - max_memory_items + 1]
    /\ memory[1] # appended[1]

TookGreetingPath ==
    chat_result.status # "none" /\ chat_result.prompt \in GreetingPrompts

\* C7: when chat takes the greeting fast path it issues no vector-store
\* query and no generation call, and returns the fixed greeting reply with an
\* empty sources list and retrieval, generation and total times all 0.
C7_GreetingFastPath ==
    TookGreetingPath =>
        /\ store_calls = <<>>
        /\ gen_calls = <<>>
        /\ chat_result.status = "returned"
        /\ chat_result.answer = StrAnswer("Hi! I'm here to help you", 90)
        /\ chat_result.sources = <<>>
        /\ chat_result.stats.retrieval_time = 0
        /\ chat_result.stats.generation_time = 0
        /\ chat_result.stats.total_time = 0

\* a greeting answered after an earlier turn went through retrieval
C7_Witness ==
    /\ TookGreetingPath
    /\ chat_result.prompt = P_hi_there
    /\ memory # <<>>

\* C8: a failure of the generation call never propagates out of chat: a
\* chat call raises only when the vector-store query failed, and every chat
\* call that returns, on the first or on any later turn, returns an answer
\* that is a text string.
C8_GenerationFailureContained ==
    /\ (chat_result.status = "raised"
           => chat_result.error = "Error searching vector store")
    /\ (chat_result.status = "returned" => chat_result.answer.type = "str")

RECURSIVE SumOfTimes(_, _)
\* the sum of the k-th components of the pairs of times
SumOfTimes(times, k) ==
    IF times = <<>> THEN 0 ELSE times[1][k] + SumOfTimes(Tail(times), k)

\* the rational p is the mean of n numbers whose sum is total
IsMean(p, total, n) == p.num * n = total * p.den

\* C23: after n completed non-greeting chat turns performance_stats has
\* queries = n, avg_retrieval_time the arithmetic mean of the n retrieval
\* times and avg_generation_time the arithmetic mean of the n generation
\* times; a greeting turn changes none of the three.
C23_StatsAreRunningMeans ==
    [][
        /\ performance_stats'.queries = Len(turn_times')
        /\ Len(turn_times') > 0 =>
              /\ IsMean(performance_stats'.avg_retrieval_time,
                        SumOfTimes(turn_times', 1), Len(turn_times'))
              /\ IsMean(performance_stats'.avg_generation_time,
                        SumOfTimes(turn_times', 2), Len(turn_times'))
        /\ (chat_result'.prompt \in GreetingPrompts /\ chat_result'.status # "none")
              => performance_stats' = performance_stats
    ]_vars

\* a greeting answered after two completed turns with different retrieval
\* times
C23_Witness ==
    /\ Len(turn_times) = 2
    /\ turn_times[1][1] # turn_times[2][1]
    /\ performance_stats.queries = 2
    /\ chat_result.prompt \in GreetingPrompts
    /\ chat_result.status = "returned"

\* C24: when memory is non-empty the context handed to generation carries
\* a history built from exactly the last min(3, |memory|) exchanges in
\* insertion order, each with its full question and at most the first 200
\* characters of its answer; when memory is empty there is no history.
C24_HistoryIsLastThree ==
    [][clock' # clock =>
         LET history == gen_calls'[1].context.history
             n       == Min(3, Len(memory))
             first   == Len(memory) - n
         IN  /\ Len(gen_calls') = 1
             /\ Len(history) = n
             /\ \A i \in 1..n :
                   /\ history[i].question = memory[first + i].question
                   /\ history[i].answer_head <= 200
                   /\ history[i].answer_head =
                         Min(memory[first + i].answer.len, 200)
             /\ gen_calls'[1].context.len =
                   (IF memory = <<>> THEN 0 ELSE MemoryContextLen(memory) + 2)
                       + PrepareContextLen(gen_calls'[1].context.sections)
    ]_vars

\* the fifth turn: four exchanges remembered, three of them in the history,
\* with different questions and an answer cut to 200 characters
C24_Witness ==
    /\ Len(appended) = 5
    /\ Len(gen_calls) = 1
    /\ Len(gen_calls[1].context.history) = 3
    /\ gen_calls[1].context.history[1].answer_head = 200
    /\ gen_calls[1].context.history[3].answer_head < 200
    /\ gen_calls[1].context.history[1].question
           # gen_calls[1].context.history[2].question
    /\ appended[1].question # gen_calls[1].context.history[1].question

C28_RetrievalFailureChangesNothing ==
    [][(/\ chat_result'.status = "raised"
        /\ chat_result'.error = "Error searching vector store"
        /\ <<chat_result, store_calls, retrieved_docs, gen_calls>>'
              # <<chat_result, store_calls, retrieved_docs, gen_calls>>)
          => /\ memory' = memory
             /\ appended' = appended
             /\ performance_stats' = performance_stats
             /\ gen_calls' = <<>>
             /\ Len(store_calls') = 1
    ]_vars

\* a failed query on a chatbot that remembers a turn
C28_Witness ==
    /\ chat_result.status = "raised"
    /\ chat_result.error = "Error searching vector store"
    /\ memory # <<>>
    /\ performance_stats.queries >= 1
    /\ gen_calls = <<>>
    /\ Len(store_calls) = 1

(***************************************************************************)
(* Claims about EmbeddingManager (checked under SpecEmbed)                 *)
(***************************************************************************)
EmbedTextReturned ==
    embed_result.op = "embed_text" /\ embed_result.status = "returned"

\* C9: when every provider call succeeds, embed_text returns exactly one
\* embedding per input text, and the i-th output is the embedding of the
\* i-th input text, whatever the mix of cache hits and misses and whatever
\* the input length relative to the batch size.
C9_OneEmbeddingPerTextInOrder ==
    EmbedTextReturned =>
        /\ Len(embed_result.value) = Len(embed_result.texts)
        /\ \A i \in 1..Len(embed_result.texts) :
              embed_result.value[i] = ProviderEmbedding(embed_result.texts[i])

\* a call over more texts than one batch holds whose first text was a cache
\* miss and whose second text, in the same batch, was a cache hit
C9_Witness ==
    /\ EmbedTextReturned
    /\ Len(embed_result.texts) >= 3
    /\ provider_calls # <<>>
    /\ provider_calls[1] = embed_result.texts[1]
    /\ embed_result.texts[2] # embed_result.texts[1]
    /\ \A i \in 1..Len(provider_calls) : provider_calls[i] # embed_result.texts[2]
    /\ Len(embed_result.value) = 3

Occurrences(lst, txt) == Cardinality({i \in 1..Len(lst) : lst[i] = txt})

\* the file holds a list of floats
ValidEntry(file) == file.kind = "file" /\ JsonLoads(file.doc).ok

\* C22: during embed_text the provider is called only for texts that had no
\* valid cache entry, at most once per occurrence of such a text and never
\* for a text whose entry is valid; every provider result is written to the
\* cache; when a provider call fails embed_text raises, and the failed call
\* is the last one: it is not repeated and no other text is fetched after it.
C22_ProviderCalledOnlyForMisses ==
    [][
        (embed_result.op = "none" /\ embed_result'.op = "embed_text") =>
            LET calls == provider_calls'
                fetched == IF embed_result'.status = "raised"
                           THEN SubSeq(calls, 1, Len(calls) - 1)
                           ELSE calls
            IN  /\ \A c \in 1..Len(calls) :
                      /\ ~ValidEntry(cache[GetCacheKey(calls[c])])
                      /\ Occurrences(calls, calls[c])
                            <= Occurrences(embed_result'.texts, calls[c])
                /\ \A i \in 1..Len(embed_result'.texts) :
                      ValidEntry(cache[GetCacheKey(embed_result'.texts[i])])
                         => Occurrences(calls, embed_result'.texts[i]) = 0
                /\ \A c \in 1..Len(fetched) :
                      cache'[GetCacheKey(fetched[c])]
                         = JsonDump(ProviderEmbedding(fetched[c]))
                /\ embed_result'.status = "raised" =>
                      /\ calls # <<>>
                      /\ embed_result'.error \in {"Request error", "Embedding error"}
                      /\ Occurrences(fetched, calls[Len(calls)])
                            < Occurrences(embed_result'.texts, calls[Len(calls)])
                /\ embed_result'.status = "returned" =>
                      \A i \in 1..Len(embed_result'.texts) :
                         ~ValidEntry(cache[GetCacheKey(embed_result'.texts[i])])
                            => Occurrences(calls, embed_result'.texts[i]) >= 1
    ]_vars

\* embed_text raised on its second provider call: the first text fetched is
\* in the cache, a text of the call that was a cache hit was not fetched
C22_Witness ==
    /\ embed_result.op = "embed_text"
    /\ embed_result.status = "raised"
    /\ Len(provider_calls) = 2
    /\ cache[GetCacheKey(provider_calls[1])]
          = JsonDump(ProviderEmbedding(provider_calls[1]))
    /\ \E i \in 1..Len(embed_result.texts) :
          /\ Occurrences(provider_calls, embed_result.texts[i]) = 0
          /\ ValidEntry(cache[GetCacheKey(embed_result.texts[i])])

\* C11: for any key and any serializable embedding vector v,
\* _save_to_cache(key, v) followed by _load_from_cache(key) returns v, and
\* every later load of the key returns v until the entry is overwritten by
\* another save or the cache is cleared; a load leaves the entry as it is.
C11_CacheRoundTrip ==
    [][
        (embed_result'.op = "_load_from_cache" /\ saved[embed_result'.key] # None)
           => /\ embed_result'.status = "returned"
              /\ embed_result'.value = saved[embed_result'.key]
              /\ cache'[embed_result'.key] = cache[embed_result'.key]
              /\ embed_result'.key \notin unlinked'
    ]_vars

\* a load returned a vector with a negative and a fractional component that
\* an earlier _save_to_cache call wrote over a damaged entry
C11_Witness ==
    /\ embed_result.op = "_load_from_cache"
    /\ embed_result.status = "returned"
    /\ saved[embed_result.key] = <<-12, 5>>
    /\ embed_result.value = <<-12, 5>>

C13_ResetIsIdempotent ==
    [][
        /\ store_result'.op = "reset_collection"
              => /\ store_result'.status = "returned"
                 /\ collection_exists'
                 /\ collection_metadata'.name = COLLECTION_NAME
                 /\ collection_metadata'.embedding_provider = embedding_provider_name
                 /\ (collection_exists => collection_metadata' = collection_metadata)
                 /\ collection' = {}
        /\ (store_result'.op = "similarity_search"
                /\ store_result.after = "reset_collection")
              => /\ store_result'.status = "returned"
                 /\ store_result'.docs = <<>>
        /\ (store_result'.op = "get_collection_info"
                /\ store_result.after = "reset_collection")
              => /\ store_result'.status = "returned"
                 /\ store_result'.info.document_count = 0
    ]_vars

\* the second of two consecutive reset_collection calls has returned, the
\* first of them made on a collection that held chunks
C13_Witness ==
    /\ store_result.op = "reset_collection"
    /\ store_result.after = "reset_collection"
    /\ store_result.status = "returned"
    /\ issued_count > 0
    /\ collection = {}

\* C14: identifiers generated by add_documents are unique within a process
\* run: no two chunks inserted by the same or by different add_documents
\* calls (calls within the same second included) receive the same id.
C14_IdsUnique == Cardinality(issued_ids) = issued_count

\* C15: when inserting batch j of an add_documents call fails, the call
\* raises an error wrapping the database error, every chunk of the batches
\* before j is committed in the collection with its id, and no chunk of
\* batch j or of a later batch is committed; what the collection held before
\* the call stays.
C15_EarlierBatchesStayCommitted ==
    [][
        (store_result'.op = "add_documents" /\ store_result'.status = "raised")
          => LET documents == store_result'.documents
                 ids       == store_result'.issued
                 before_j  == (store_result'.failed_batch - 1) * store_result'.batch_size
                 RecordOf(n) == [id       |-> ids[n],
                                 source   |-> documents[n].source,
                                 chunk_id |-> documents[n].chunk_id]
             IN  /\ store_result'.error = "Error adding document batch to vector store"
                 /\ store_result'.failed_batch >= 1
                 /\ Len(ids) = Min(before_j + store_result'.batch_size, Len(documents))
                 /\ collection' =
                       collection \cup {RecordOf(n) : n \in 1..before_j}
                 /\ Cardinality(collection') = Cardinality(collection) + before_j
                 /\ \A n \in (before_j + 1)..Len(ids) : ids[n] \notin IdsOf(collection')
    ]_vars

\* the second batch of a call failed after its first batch was committed,
\* and a third chunk was left
C15_Witness ==
    /\ store_result.op = "add_documents"
    /\ store_result.status = "raised"
    /\ store_result.failed_batch = 2
    /\ store_result.batch_size = 1
    /\ Len(store_result.documents) >= 2
    /\ \E r \in collection : r.id = store_result.issued[1]
    /\ \A r \in collection : r.id # store_result.issued[2]
    /\ collection_exists

\* C16: _rerank_documents orders the candidates by the score
\* 10 * |tokens(question) \cap tokens(chunk)| + min(len(chunk)/100, 10),
\* highest first, and candidates of equal score keep the order in which
\* retrieval returned them; chat keeps the first SIMILARITY_SEARCH_K of them.
\* (The scores are compared times 100.)
C16_RerankIsStableSort ==
    (chat_result.status = "returned" /\ store_calls # <<>>) =>
        LET docs  == retrieved_docs
            out   == RerankDocuments(docs, QueryWordsOf[chat_result.prompt])
            score(d) ==
                10 * 100 * Cardinality(QueryWordsOf[chat_result.prompt]
                                          \cap d.page_content.words)
                    + (IF d.page_content.len < 1000 THEN d.page_content.len ELSE 1000)
            At(d) == CHOOSE r \in 1..Len(out) : out[r] = d
        IN  /\ Len(out) = Len(docs)
            /\ Range(out) = Range(docs)
            /\ \A r, t \in 1..Len(out) : r < t => score(out[r]) >= score(out[t])
            /\ \A a, b \in 1..Len(docs) :
                  (a < b /\ score(docs[a]) = score(docs[b])) => At(docs[a]) < At(docs[b])
            /\ chat_result.sources = SubSeq(out, 1, Min(SIMILARITY_SEARCH_K, Len(out)))

\* five candidates, three of them with the same score: the two returned
\* first by retrieval are kept, in that order, after the higher-scored ones
C16_Witness ==
    /\ chat_result.status = "returned"
    /\ retrieved_docs = <<DocA, DocB, DocC, DocD, DocE>>
    /\ chat_result.sources = <<DocA, DocE, DocB, DocC>>

\* C17: a chat turn that is not a greeting queries the store once, with the
\* optimized query and k = 2 * SIMILARITY_SEARCH_K; the sources it returns
\* are min(SIMILARITY_SEARCH_K, number of candidates) of the candidates of
\* that query, each taken once, in descending score order, and no candidate
\* left out scores higher than one that was kept.
C17_SourcesAreTopCandidates ==
    (chat_result.status # "none" /\ chat_result.prompt \notin GreetingPrompts) =>
        /\ Len(store_calls) = 1
        /\ store_calls[1].k = 2 * SIMILARITY_SEARCH_K
        /\ store_calls[1].query_text = OptimizeQuery(chat_result.prompt)
        /\ chat_result.status = "returned" =>
              LET src  == chat_result.sources
                  docs == retrieved_docs
                  score(d) == Score100(d, QueryWordsOf[chat_result.prompt])
              IN  /\ Len(src) = Min(SIMILARITY_SEARCH_K, Len(docs))
                  /\ \A i, j \in 1..Len(src) : i < j => score(src[i]) >= score(src[j])
                  /\ \E f \in [1..Len(src) -> 1..Len(docs)] :
                        /\ \A i, j \in 1..Len(src) : i # j => f[i] # f[j]
                        /\ \A i \in 1..Len(src) : src[i] = docs[f[i]]
                        /\ \A c \in 1..Len(docs) :
                              (\A i \in 1..Len(src) : f[i] # c) =>
                                  \A i \in 1..Len(src) : score(docs[c]) <= score(src[i])

\* five candidates came back for a question that is no greeting: four are
\* returned, the lowest-scored one is left out
C17_Witness ==
    /\ chat_result.status = "returned"
    /\ chat_result.prompt = P_hello_explain
    /\ store_calls = <<[query_text |-> OptimizeQuery(P_hello_explain),
                       k |-> 2 * SIMILARITY_SEARCH_K]>>
    /\ Len(retrieved_docs) = 5
    /\ chat_result.sources = <<DocC, DocB, DocA, DocD>>

\* the words of the phrase are consecutive words of the question
HasPhrase(phrase, question) ==
    LET pw == Split(phrase)
        qw == Split(question)
    IN  \E i \in 0..(Len(qw) - Len(pw)) : SubSeq(qw, i + 1, i + Len(pw)) = pw

\* C20: chat takes the greeting fast path (no store query, no generation
\* call) if and only if the question has at most 3 whitespace-separated
\* tokens and a greeting term is a word or phrase of it; a question none of
\* whose words is a greeting term goes through retrieval and generation.
C20_GreetingIffWordOfQuestion ==
    chat_result.status # "none" =>
        ((store_calls = <<>> /\ gen_calls = <<>>)
            <=> (/\ Len(Split(chat_result.prompt)) <= 3
                 /\ \E g \in 1..Len(greetings) :
                       HasPhrase(greetings[g], Strip(Lower(chat_result.prompt)))))

(***************************************************************************)
(* Claims about process_pdf and process_txt (checked under SpecProcess)    *)
(***************************************************************************)
\* C18: processing a document whose extracted text is empty or only
\* whitespace fails with the empty-content error and yields no chunks, on
\* the PDF path, the UTF-8 text path and the latin-1 fallback path.
C18_EmptyContentRejected ==
    (/\ process_result.op # "none"
     /\ \A p \in 1..Len(process_result.extracted) : IsBlank(process_result.extracted[p]))
        => /\ process_result.status = "raised"
           /\ process_result.error \in
                 {"Error processing PDF: No text content found in PDF",
                  "Error processing TXT: No text content found in TXT file"}
           /\ process_result.documents = <<>>

(***************************************************************************)
(* Claims about a shared cache entry (checked under SpecShared)            *)
(***************************************************************************)
\* C19: with one process saving a cache entry while another loads the same
\* key or clears the cache, in any interleaving, the loader never raises:
\* it returns a miss or a complete embedding vector, never a partial one.
C19_LoaderNeverRaises ==
    loader.pc = "done" =>
        /\ loader.status = "returned"
        /\ loader.value \in {None, OldEmbedding, NewEmbedding}

\* what a _load_from_cache(cache_key) running alone from this state returns
LoadAlone ==
    IF disk.entry = NoFile THEN None
    ELSE LET loaded == JsonLoads(disk.files[disk.entry])
         IN  IF loaded.ok THEN loaded.value ELSE None

\* C29: a load of the key that runs concurrently with the save never
\* destroys the saved entry: once _save_to_cache has completed and no
\* clear_cache has run, a later _load_from_cache returns the saved vector,
\* wherever the concurrent load is in its existence check, read and delete.
C29_CompletedSaveSurvivesLoad ==
    (saver.pc = "done" /\ clearer.pc = "idle") => LoadAlone = NewEmbedding

(***************************************************************************)
(* Claims about _optimize_context_length (checked under SpecContext)       *)
(***************************************************************************)
\* C21: _optimize_context_length returns its input unchanged when it fits
\* the budget; otherwise it returns the first whole lines of the input, in
\* order, followed by the truncation marker, and the whole result with the
\* marker is within the budget.
C21_TruncatedWithinBudget ==
    context_result.op # "none" =>
        IF Len(context_result.context) <= context_result.limit
        THEN context_result.value = context_result.context
        ELSE /\ \E k \in 0..Len(SplitLines(context_result.context)) :
                   context_result.value =
                       JoinLines(SubSeq(SplitLines(context_result.context), 1, k))
                           \o TruncationMarker
             /\ Len(context_result.value) <= context_result.limit

(***************************************************************************)
(* Claims about the provider selector (checked under SpecSelector)         *)
(***************************************************************************)
\* C27: whatever provider is selected, a run of the selector with
\* chromadb_default chosen makes chromadb_default the selected provider: its
\* availability test, when one is made, succeeds.
C27_DefaultAlwaysSelectable ==
    selection_result.chosen = "chromadb_default" =>
        /\ selected_embedding_provider = "chromadb_default"
        /\ selection_result.returned
        /\ selection_result.tested => selection_result.available

(***************************************************************************)
(* Claims about PerformanceMonitor (checked under SpecMonitor)             *)
(***************************************************************************)
\* C30: after any sequence of start_monitoring and stop_monitoring calls at
\* most one sampling thread that was not stopped is running, and no sample
\* of system_metrics was appended by a thread after it had been stopped.
C30_StoppedThreadStaysStopped ==
    /\ Cardinality({t \in LiveThreads : ~threads[t].stopped}) <= 1
    /\ \A i \in 1..Len(system_metrics) : ~system_metrics[i].stopped_before

============================================================================
